---- MODULE Spec2Model ----
(***************************************************************************)
(* Model of the identification core of the blockchain intelligence         *)
(* backend: address clustering (clusteringService), entity attribution     *)
(* and entity-store updates (entityAttribution), the in-memory entity      *)
(* store (entity service), the identification orchestrator and the risk    *)
(* scorer.                                                                 *)
(*                                                                         *)
(* JavaScript values are represented as follows.                           *)
(*   - an address is a string; Undef stands for the value undefined and    *)
(*     JNull for null (JSON.stringify turns undefined array members into   *)
(*     null);                                                              *)
(*   - an array, and a Set (which iterates in insertion order), is a       *)
(*     sequence; a Set is a sequence without repetitions;                  *)
(*   - an object used as a map with non-numeric string keys is a sequence  *)
(*     of records in key insertion order;                                  *)
(*   - a thrown exception is a result record with status "error".          *)
(***************************************************************************)
EXTENDS Integers, Sequences, FiniteSets, TLC

VARIABLES
    txs,               \* the transaction list handed to the run
    pc,                \* position of the run
    clusters,          \* the clusters object of the run
    clusterIdCounter,  \* commonInputClustering's clusterIdCounter
    processed,         \* indices of the transactions already processed
    status,            \* "ok", or "error" once the run has thrown
    entities,          \* the entity service's entities array
    addressToEntityMap,\* the entity service's reverse index
    nextUuid,          \* the id the next createEntity draws
    attributionResults,\* per update run: the attribution results it was given
    confidenceThreshold,\* per update run: its confidenceThreshold
    run,               \* per update run: position, entity read, updateResults
    call,              \* the call under way: [op, address, options]
    ret,               \* what the call returned
    bulk               \* calculateBulkAddressRisk: loop index, batches, work in flight

varsCluster == <<txs, pc, clusters, clusterIdCounter, processed, status>>
varsStore == <<entities, addressToEntityMap, nextUuid>>
varsUpdate == <<attributionResults, confidenceThreshold, run>>
varsCall == <<call, ret>>

vars == <<txs, pc, clusters, clusterIdCounter, processed, status,
          entities, addressToEntityMap, nextUuid,
          attributionResults, confidenceThreshold, run, call, ret, bulk>>

----------------------------------------------------------------------------
(* Bounds and universes *)

MaxTxCI == 3      \* transactions per list, common-input specification
MaxTx == 2        \* transactions per list, combined-clustering specification

Addr == {"a", "b", "c"}
Addr4 == {"a", "b", "c", "d"}

Undef == "undefined"
JNull == "null"
NullEntry == "nullentry"   \* a null member of tx.inputs / tx.outputs

----------------------------------------------------------------------------
(* Sequence helpers *)

Range(s) == {s[i] : i \in 1..Len(s)}

Includes(s, x) == \E i \in 1..Len(s) : s[i] = x

Filter(s, Test(_)) == SelectSeq(s, Test)

\* Set.prototype.add on an insertion-ordered Set
SetAdd(s, x) == IF Includes(s, x) THEN s ELSE Append(s, x)

RECURSIVE SetAddAll(_, _)
SetAddAll(s, xs) ==
    IF xs = <<>> THEN s ELSE SetAddAll(SetAdd(s, Head(xs)), Tail(xs))

\* new Set(array)
NewSet(xs) == SetAddAll(<<>>, xs)

RECURSIVE Flatten(_)
Flatten(ss) == IF ss = <<>> THEN <<>> ELSE Head(ss) \o Flatten(Tail(ss))

\* the sequences of length 0..n over S
SeqUpTo(S, n) == UNION {[1..k -> S] : k \in 0..n}

----------------------------------------------------------------------------
(* Transactions *)

\* {hash, from, to}: a simple transfer; hash is the position in the list
Simple(x, y) ==
    [hasInputs |-> FALSE, inputs |-> <<>>, hasOutputs |-> FALSE, outputs |-> <<>>,
     from |-> x, to |-> y]

\* {hash, inputs: [{address}...], outputs: [{address}...]}
Utxo(ins, outs) ==
    [hasInputs |-> TRUE, inputs |-> ins, hasOutputs |-> TRUE, outputs |-> outs,
     from |-> Undef, to |-> Undef]

\* input.address / output.address of a list member
EntryThrows(entries) == Includes(entries, NullEntry)

getInputAddresses(tx) == IF tx.hasInputs THEN tx.inputs ELSE <<tx.from>>

getOutputAddresses(tx) == IF tx.hasOutputs THEN tx.outputs ELSE <<tx.to>>

getInputThrows(tx) == tx.hasInputs /\ EntryThrows(tx.inputs)

getOutputThrows(tx) == tx.hasOutputs /\ EntryThrows(tx.outputs)

IsAddress(x) == x \notin {Undef, JNull, NullEntry}

\* a record every address of which can be read
WellFormedTx(tx) ==
    /\ \A i \in 1..Len(getInputAddresses(tx)) : IsAddress(getInputAddresses(tx)[i])
    /\ \A i \in 1..Len(getOutputAddresses(tx)) : IsAddress(getOutputAddresses(tx)[i])

WellFormed(ts) == \A i \in 1..Len(ts) : WellFormedTx(ts[i])

GoodOnly(ts) == SelectSeq(ts, WellFormedTx)

\* every address appearing in any transaction
AllAddresses(ts) ==
    {x \in UNION {Range(getInputAddresses(ts[i])) \cup Range(getOutputAddresses(ts[i]))
                    : i \in 1..Len(ts)} : IsAddress(x)}

----------------------------------------------------------------------------
(* Clusters objects: sequences of [id, members] in key insertion order *)

ClusterId(n) == <<"cluster", n>>
BehavioralId(n) == <<"behavioral_cluster", n>>

Keys(cl) == [i \in 1..Len(cl) |-> cl[i].id]

HasKey(cl, id) == \E i \in 1..Len(cl) : cl[i].id = id

Get(cl, id) == (CHOOSE i \in 1..Len(cl) : cl[i].id = id)

Members(cl, id) == cl[Get(cl, id)].members

\* obj[id] = members: an existing key keeps its place, a new one goes last
Put(cl, id, members) ==
    IF HasKey(cl, id)
    THEN [cl EXCEPT ![Get(cl, id)] = [id |-> id, members |-> members]]
    ELSE Append(cl, [id |-> id, members |-> members])

\* delete obj[id]
Delete(cl, id) == SelectSeq(cl, LAMBDA c : c.id # id)

PairwiseDisjoint(cl) ==
    \A i, j \in 1..Len(cl) :
        i # j => Range(cl[i].members) \cap Range(cl[j].members) = {}

Covered(cl) == UNION {Range(cl[i].members) : i \in 1..Len(cl)}

\* the partition a clusters object stands for, cluster ids ignored
PartitionOf(cl) == {Range(cl[i].members) : i \in 1..Len(cl)}

----------------------------------------------------------------------------
(* commonInputClustering *)

\* the ids of the clusters holding one of the input addresses, in the order
\* the nested loops find them (a Set of cluster ids)
ExistingClusters(ins, cl) ==
    NewSet(Flatten([k \in 1..Len(ins) |->
        Keys(SelectSeq(cl, LAMBDA c : Includes(c.members, ins[k])))]))

\* the faulty variant: the other clusters are deleted without their members
\* being added to the target
MergeIntoDropMembers(cl, target, others, k) ==
    IF k > Len(others) THEN cl
    ELSE SelectSeq(cl, LAMBDA c : c.id = target \/ ~Includes(others, c.id))

RECURSIVE MergeInto(_, _, _, _)
\* the loop over clusterIds[1..]: add the members of each other cluster to
\* the target cluster and delete that cluster
MergeInto(cl, target, others, k) ==
    IF k > Len(others) THEN cl
    ELSE MergeInto(
            Delete(Put(cl, target,
                       SetAddAll(Members(cl, target), Members(cl, others[k]))),
                   others[k]),
            target, others, k + 1)

\* the else branch: merge all touched clusters into the first one
MergeClusters(cl, ex, ins) ==
    MergeInto(Put(cl, ex[1], SetAddAll(Members(cl, ex[1]), ins)), ex[1], ex, 2)

\* the body of transactions.forEach for one transaction that does not throw
CommonInputStep(st, tx) ==
    LET ins == getInputAddresses(tx)
        ex  == ExistingClusters(ins, st.clusters)
    IN  IF Len(ins) <= 1 THEN st
        ELSE IF Len(ex) = 0
        THEN [st EXCEPT !.clusters = Put(@, ClusterId(st.counter), NewSet(ins)),
                        !.counter = @ + 1]
        ELSE IF Len(ex) = 1
        THEN [st EXCEPT !.clusters =
                 Put(@, ex[1], SetAddAll(Members(st.clusters, ex[1]), ins))]
        ELSE [st EXCEPT !.clusters = MergeClusters(@, ex, ins)]

RECURSIVE CommonInputFold(_, _, _)
CommonInputFold(st, ts, k) ==
    IF k > Len(ts) THEN st
    ELSE IF getInputThrows(ts[k]) THEN [st EXCEPT !.status = "error"]
    ELSE CommonInputFold(CommonInputStep(st, ts[k]), ts, k + 1)

\* the whole function: [status, clusters]; the try/catch rethrows
commonInputClustering(ts) ==
    LET st == CommonInputFold([clusters |-> <<>>, counter |-> 1, status |-> "ok"], ts, 1)
    IN  IF st.status = "ok"
        THEN [status |-> "ok", clusters |-> st.clusters]
        ELSE [status |-> "error", clusters |-> <<>>]

----------------------------------------------------------------------------
(* changeAddressIdentification *)

\* JSON.parse(JSON.stringify(clusters)): undefined array members become null
JsonClone(cl) ==
    [i \in 1..Len(cl) |->
        [id |-> cl[i].id,
         members |-> [k \in 1..Len(cl[i].members) |->
                        IF cl[i].members[k] = Undef THEN JNull ELSE cl[i].members[k]]]]

isChangeAddressCandidate(tx) == TRUE

\* tx.hash of transaction i: a record without a hash field stands for a
\* transaction whose hash is its own (its position in the list)
HashOf(ts, i) == IF "hash" \in DOMAIN ts[i] THEN ts[i].hash ELSE i

\* allTransactions.findIndex(tx => tx.hash === currentTx.hash), for the
\* transaction at position i
findIndex(ts, i) ==
    CHOOSE k \in 1..i :
        /\ HashOf(ts, k) = HashOf(ts, i)
        /\ \A m \in 1..(k - 1) : HashOf(ts, m) # HashOf(ts, i)

\* i is the position of currentTx; the transactions before the first one
\* with its hash are searched
hasAddressAppearedBefore(address, i, ts) ==
    \E k \in 1..(findIndex(ts, i) - 1) :
        \/ Includes(getInputAddresses(ts[k]), address)
        \/ Includes(getOutputAddresses(ts[k]), address)

\* the output addresses that appear in no preceding transaction
PotentialChangeAddresses(i, ts) ==
    SelectSeq(getOutputAddresses(ts[i]),
              LAMBDA a : ~hasAddressAppearedBefore(a, i, ts))

\* the clusters, in key order, that hold one of the input addresses
OwnerCandidates(cl, ins) ==
    SelectSeq(cl, LAMBDA c : \E k \in 1..Len(ins) : Includes(c.members, ins[k]))

\* the body of transactions.forEach for transaction i when nothing throws
ChangeAddressStep(cl, i, ts) ==
    LET ins    == getInputAddresses(ts[i])
        pot    == PotentialChangeAddresses(i, ts)
        owners == OwnerCandidates(cl, ins)
    IN  IF ~isChangeAddressCandidate(ts[i]) THEN cl
        ELSE IF Len(pot) # 1 THEN cl
        ELSE IF Len(owners) > 0
        THEN Put(cl, owners[1].id, Append(owners[1].members, pot[1]))
        ELSE Put(cl, ClusterId(Len(cl) + 1), Append(ins, pot[1]))

RECURSIVE ChangeAddressFold(_, _, _)
ChangeAddressFold(st, ts, k) ==
    IF k > Len(ts) THEN st
    ELSE IF getInputThrows(ts[k]) \/ getOutputThrows(ts[k])
    THEN [st EXCEPT !.status = "error"]
    ELSE ChangeAddressFold(
            [st EXCEPT !.clusters = ChangeAddressStep(@, k, ts)], ts, k + 1)

changeAddressIdentification(ts, cl) ==
    LET st == ChangeAddressFold([clusters |-> JsonClone(cl), status |-> "ok"], ts, 1)
    IN  IF st.status = "ok"
        THEN [status |-> "ok", clusters |-> st.clusters]
        ELSE [status |-> "error", clusters |-> <<>>]

----------------------------------------------------------------------------
(* behavioralClustering *)

\* the identifier behavioralClustering calls is areFeaturesSimilar; the module
\* defines areFeaturesSimlar, so the call raises a ReferenceError
areFeaturesSimilarIsDefined == FALSE

\* the placeholder body of the similarity test
areFeaturesSimlar(f1, f2) == FALSE

\* the inner forEach for the cluster opened for address: the addresses that are
\* compared with it (neither itself nor already processed)
ComparedWith(address, addresses, done) ==
    SelectSeq(addresses, LAMBDA o : o # address /\ ~Includes(done, o))

RECURSIVE BehavioralFold(_, _, _)
\* st = [clusters, counter, done, status]
BehavioralFold(st, addresses, k) ==
    IF k > Len(addresses) \/ st.status = "error" THEN st
    ELSE IF Includes(st.done, addresses[k])
    THEN BehavioralFold(st, addresses, k + 1)
    ELSE LET done1 == Append(st.done, addresses[k])
             cmp   == ComparedWith(addresses[k], addresses, done1)
         IN  IF cmp # <<>> /\ ~areFeaturesSimilarIsDefined
             THEN [st EXCEPT !.status = "error"]
             ELSE BehavioralFold(
                    [clusters |-> Put(st.clusters, BehavioralId(st.counter),
                                      <<addresses[k]>>),
                     counter |-> st.counter + 1,
                     done |-> done1,
                     status |-> "ok"],
                    addresses, k + 1)

behavioralClustering(ts, addresses) ==
    LET st == BehavioralFold(
                [clusters |-> <<>>, counter |-> 1, done |-> <<>>, status |-> "ok"],
                addresses, 1)
    IN  IF st.status = "ok"
        THEN [status |-> "ok", clusters |-> st.clusters]
        ELSE [status |-> "error", clusters |-> <<>>]

----------------------------------------------------------------------------
(* combinedClustering *)

\* the addresses of the transactions in first-appearance order, unreadable
\* members left out: the list a caller extracts from the transactions
AddressList(ts) ==
    SelectSeq(
        NewSet(Flatten([i \in 1..Len(ts) |->
            <<ts[i].from, ts[i].to>> \o ts[i].inputs \o ts[i].outputs])),
        IsAddress)

UnclusteredAddresses(cl, addresses) ==
    SelectSeq(addresses, LAMBDA a : a \notin Covered(cl))

RECURSIVE PutAll(_, _)
PutAll(cl, more) ==
    IF more = <<>> THEN cl
    ELSE PutAll(Put(cl, Head(more).id, Head(more).members), Tail(more))

\* the last stage of combinedClustering, given the change-address result
CombineBehavioral(ts, cl, addresses) ==
    LET un == UnclusteredAddresses(cl, addresses)
        bc == behavioralClustering(ts, un)
    IN  IF Len(un) = 0 THEN [status |-> "ok", clusters |-> cl]
        ELSE IF bc.status = "error" THEN [status |-> "error", clusters |-> <<>>]
        ELSE [status |-> "ok", clusters |-> PutAll(cl, bc.clusters)]

combinedClustering(ts, addresses) ==
    LET ci == commonInputClustering(ts)
        ch == changeAddressIdentification(ts, ci.clusters)
    IN  IF ci.status = "error" THEN [status |-> "error", clusters |-> <<>>]
        ELSE IF ch.status = "error" THEN [status |-> "error", clusters |-> <<>>]
        ELSE CombineBehavioral(ts, ch.clusters, addresses)

----------------------------------------------------------------------------
(* Numbers: a confidence is a rational <<numerator, denominator>>, compared   *)
(* exactly (floating-point rounding is not modelled); a confidenceScore of    *)
(* the store is held in hundredths                                            *)

Rat(n, d) == <<n, d>>
Leq(x, y) == x[1] * y[2] <= y[1] * x[2]
Less(x, y) == x[1] * y[2] < y[1] * x[2]
RatEq(x, y) == x[1] * y[2] = y[1] * x[2]
RatMin(x, y) == IF Leq(x, y) THEN x ELSE y
Hundredths(n) == <<n, 100>>
Zero == <<0, 1>>

----------------------------------------------------------------------------
(* The entity store (in-memory entities and addressToEntityMap) *)

\* String.prototype.toLowerCase on the addresses of the model: K1..K6 are the
\* mixed-case addresses of the mock entities, k1..k6 their lower-case forms
toLowerCase(a) ==
    CASE a = "K1" -> "k1" [] a = "K2" -> "k2" [] a = "K3" -> "k3"
      [] a = "K4" -> "k4" [] a = "K5" -> "k5" [] a = "K6" -> "k6"
      [] OTHER -> a

LowerAddresses == {"k1", "k2", "k3", "k4", "k5", "k6", "x", "y", "z"}

\* a value on which .toLowerCase() can be called
IsString(a) == a \notin {Undef, JNull}

NoId == 0             \* entityId null / no entry in addressToEntityMap
UuidBase == 100       \* ids above it stand for the uuids createEntity draws

\* an id that is an integer-like property key ('1', '2', ...), as opposed to a uuid
IntegerLike(id) == id < UuidBase

NullEntity ==
    [id |-> NoId, name |-> <<"null">>, type |-> "null", addresses |-> <<>>,
     confidenceScore |-> 0]

\* the mock entities, with the confidence scores c1, c2, c3 (in hundredths)
MockEntities(c1, c2, c3) ==
    << [id |-> 1, name |-> <<"Binance">>, type |-> "Exchange",
        addresses |-> <<"K1", "K2">>, confidenceScore |-> c1],
       [id |-> 2, name |-> <<"Coinbase">>, type |-> "Exchange",
        addresses |-> <<"K3", "K4">>, confidenceScore |-> c2],
       [id |-> 3, name |-> <<"Uniswap">>, type |-> "DeFi Protocol",
        addresses |-> <<"K5", "K6">>, confidenceScore |-> c3] >>

Binance == 95
Coinbase == 98
Uniswap == 92

\* the reverse index built when the module is loaded
BuildAddressMap(es) ==
    [a \in LowerAddresses |->
        IF \E i \in 1..Len(es) : \E k \in 1..Len(es[i].addresses) :
              toLowerCase(es[i].addresses[k]) = a
        THEN es[CHOOSE i \in 1..Len(es) :
                  /\ \E k \in 1..Len(es[i].addresses) :
                        toLowerCase(es[i].addresses[k]) = a
                  /\ \A j \in (i + 1)..Len(es) :
                        \A k \in 1..Len(es[j].addresses) :
                            toLowerCase(es[j].addresses[k]) # a].id
        ELSE NoId]

EntityIndex(es, id) ==
    IF \E i \in 1..Len(es) : es[i].id = id
    THEN CHOOSE i \in 1..Len(es) : es[i].id = id /\ \A j \in 1..(i - 1) : es[j].id # id
    ELSE 0

\* [status, entity]; throws when no entity has the id
getEntityById(es, id) ==
    IF EntityIndex(es, id) = 0
    THEN [status |-> "error", entity |-> NullEntity]
    ELSE [status |-> "ok", entity |-> es[EntityIndex(es, id)]]

\* [status, entity]; entity is NullEntity for null; throws on a non-string
findEntityForAddress(es, map, address) ==
    IF ~IsString(address) THEN [status |-> "error", entity |-> NullEntity]
    ELSE IF map[toLowerCase(address)] = NoId
    THEN [status |-> "ok", entity |-> NullEntity]
    ELSE getEntityById(es, map[toLowerCase(address)])

RECURSIVE MapAddresses(_, _, _)
\* addresses.forEach(address => map[address.toLowerCase()] = id): the entries
\* before the first non-string address are written, then the loop throws
MapAddresses(map, addresses, id) ==
    IF addresses = <<>> THEN [status |-> "ok", map |-> map]
    ELSE IF ~IsString(Head(addresses)) THEN [status |-> "error", map |-> map]
    ELSE MapAddresses([map EXCEPT ![toLowerCase(Head(addresses))] = id],
                      Tail(addresses), id)

\* [status, entities, map, entity]: push the entity, then index its addresses
createEntity(es, map, data, id) ==
    LET newEntity == [id |-> id, name |-> data.name, type |-> data.type,
                      addresses |-> data.addresses,
                      confidenceScore |->
                          IF data.confidenceScore = 0 THEN 50 ELSE data.confidenceScore]
        m == MapAddresses(map, data.addresses, id)
    IN  [status |-> m.status, entities |-> Append(es, newEntity), map |-> m.map,
         entity |-> newEntity]

\* [status, entities, map, entity]: replace the addresses of entity id, drop
\* its old index entries, index the new addresses
updateEntity(es, map, id, addresses) ==
    LET idx == EntityIndex(es, id)
        updatedEntity == [es[idx] EXCEPT !.addresses = addresses]
        cleared == [a \in LowerAddresses |-> IF map[a] = id THEN NoId ELSE map[a]]
        m == MapAddresses(cleared, addresses, id)
    IN  IF idx = 0
        THEN [status |-> "error", entities |-> es, map |-> map, entity |-> NullEntity]
        ELSE [status |-> m.status, entities |-> [es EXCEPT ![idx] = updatedEntity],
              map |-> m.map, entity |-> updatedEntity]

----------------------------------------------------------------------------
(* calculateConsensusAttribution *)

\* one hit: the attribution pushed for an address the store knows
Hit(entity, address) ==
    [entityId |-> entity.id, entityName |-> entity.name, entityType |-> entity.type,
     matchedAddress |-> address, confidenceBase |-> entity.confidenceScore]

HitCount(attributions, id) ==
    Cardinality({i \in 1..Len(attributions) : attributions[i].entityId = id})

\* the entity ids in the order the hits were met (the insertion order of the
\* keys of entityGroups)
InsertionOrder(attributions) ==
    NewSet([i \in 1..Len(attributions) |-> attributions[i].entityId])

RECURSIVE SortAscending(_)
SortAscending(S) ==
    IF S = {} THEN <<>>
    ELSE LET m == CHOOSE x \in S : \A y \in S : x <= y
         IN  <<m>> \o SortAscending(S \ {m})

\* for (const entityId in entityGroups): integer-like keys come first, in
\* ascending numeric order, then the other keys in insertion order
ForInOrder(attributions) ==
    LET ord == InsertionOrder(attributions)
    IN  SortAscending({id \in Range(ord) : IntegerLike(id)})
            \o SelectSeq(ord, LAMBDA id : ~IntegerLike(id))

RECURSIVE BestEntity(_, _, _, _, _)
\* the loop keeping the first key whose count is strictly greater
BestEntity(attributions, keys, k, bestId, bestCount) ==
    IF k > Len(keys) THEN [id |-> bestId, count |-> bestCount]
    ELSE IF HitCount(attributions, keys[k]) > bestCount
    THEN BestEntity(attributions, keys, k + 1, keys[k], HitCount(attributions, keys[k]))
    ELSE BestEntity(attributions, keys, k + 1, bestId, bestCount)

\* the first hit of an entity: entityGroups[entityId] is created from it
FirstHit(attributions, id) ==
    attributions[CHOOSE i \in 1..Len(attributions) :
                    /\ attributions[i].entityId = id
                    /\ \A j \in 1..(i - 1) : attributions[j].entityId # id]

\* 0.3*coverage + 0.4*base + 0.3*consensus, with coverage = count/total and
\* consensus = count/hits, base in hundredths
CombinedConfidence(count, total, hits, base) ==
    Rat(300 * count * hits + 4 * base * total * hits + 300 * count * total,
        1000 * total * hits)

\* the faulty variant: no cap
CapConfidenceMissing(c) == c

\* Math.min(0.99, confidence)
CapConfidence(c) == RatMin(Hundredths(99), c)

calculateConsensusAttribution(attributions, totalAddresses) ==
    LET best == BestEntity(attributions, ForInOrder(attributions), 1, NoId, 0)
        first == FirstHit(attributions, best.id)
    IN  [entityId |-> best.id,
         entityName |-> first.entityName,
         entityType |-> first.entityType,
         confidence |-> CapConfidence(
             CombinedConfidence(best.count, totalAddresses, Len(attributions),
                                first.confidenceBase)),
         matchedAddresses |->
             NewSet([i \in 1..Len(attributions) |-> attributions[i].matchedAddress])]

----------------------------------------------------------------------------
(* attributeClusters *)

RECURSIVE CollectHits(_, _, _, _)
\* the loop over addresses pushing one hit per address the store knows:
\* [status, hits]; a lookup that throws ends the whole attribution
CollectHits(es, map, addresses, k) ==
    IF k > Len(addresses) THEN [status |-> "ok", hits |-> <<>>]
    ELSE LET f == findEntityForAddress(es, map, addresses[k])
             rest == CollectHits(es, map, addresses, k + 1)
         IN  IF f.status = "error" \/ rest.status = "error"
             THEN [status |-> "error", hits |-> <<>>]
             ELSE IF f.entity.id # NoId
             THEN [status |-> "ok", hits |-> <<Hit(f.entity, addresses[k])>> \o rest.hits]
             ELSE rest

UnknownName == <<"Unknown">>

\* the attribution of one cluster, its addresses all readable
AttributeCluster(es, map, cluster) ==
    LET hits == CollectHits(es, map, cluster.members, 1).hits
        att  == calculateConsensusAttribution(hits, Len(cluster.members))
    IN  IF Len(hits) > 0
        THEN [clusterId |-> cluster.id, entityId |-> att.entityId,
              entityName |-> att.entityName, entityType |-> att.entityType,
              confidence |-> att.confidence, addresses |-> cluster.members,
              matchedAddresses |-> att.matchedAddresses]
        ELSE [clusterId |-> cluster.id, entityId |-> NoId,
              entityName |-> UnknownName, entityType |-> "Unknown",
              confidence |-> Zero, addresses |-> cluster.members,
              matchedAddresses |-> <<>>]

\* [status, results]: results in the key order of clusters
attributeClusters(es, map, cl) ==
    IF \E i \in 1..Len(cl) : CollectHits(es, map, cl[i].members, 1).status = "error"
    THEN [status |-> "error", results |-> <<>>]
    ELSE [status |-> "ok",
          results |-> [i \in 1..Len(cl) |-> AttributeCluster(es, map, cl[i])]]

----------------------------------------------------------------------------
(* attributeByBehavior and attributeAddress *)

InteractionCount(address, entityAddresses, ts) ==
    Cardinality({i \in 1..Len(ts) :
        \/ ts[i].from = address /\ Includes(entityAddresses, ts[i].to)
        \/ ts[i].to = address /\ Includes(entityAddresses, ts[i].from)})

\* Math.min(0.95, interactionRatio * 1.5)
calculateInteractionScore(address, entityAddresses, ts) ==
    IF Len(ts) > 0
    THEN RatMin(Hundredths(95),
                Rat(3 * InteractionCount(address, entityAddresses, ts), 2 * Len(ts)))
    ELSE Zero

\* interactionScore * 0.7 + patternScore * 0.3, patternScore = 0.3
BehaviorScore(i) == Rat(70 * i[1] + 9 * i[2], 100 * i[2])

RECURSIVE BestBehavior(_, _, _, _, _, _)
\* the loop over the entities: [index of the best entity or 0, its score]
BestBehavior(es, address, ts, k, bestIdx, bestScore) ==
    IF k > Len(es) THEN [idx |-> bestIdx, score |-> bestScore]
    ELSE LET sc == BehaviorScore(
                     calculateInteractionScore(address, es[k].addresses, ts))
         IN  IF Len(es[k].addresses) > 0 /\ Less(bestScore, sc) /\ Less(Hundredths(50), sc)
             THEN BestBehavior(es, address, ts, k + 1, k, sc)
             ELSE BestBehavior(es, address, ts, k + 1, bestIdx, bestScore)

attributeByBehavior(es, address, ts) == BestBehavior(es, address, ts, 1, 0, Zero)

\* the addresses attributeAddress hands to combinedClustering
RelatedInput(ts) ==
    NewSet(Flatten([i \in 1..Len(ts) |->
        getInputAddresses(ts[i]) \o getOutputAddresses(ts[i])]))

\* the other members of the first cluster that includes the address
RelatedAddresses(cl, address) ==
    LET holding == SelectSeq(cl, LAMBDA c : Includes(c.members, address))
    IN  IF Len(holding) = 0 THEN <<>>
        ELSE SelectSeq(holding[1].members, LAMBDA a : a # address)

AddressResult(id, name, type, conf, method, related, matched) ==
    [status |-> "ok", entityId |-> id, entityName |-> name, entityType |-> type,
     confidence |-> conf, attributionMethod |-> method,
     relatedAddresses |-> related, matchedAddresses |-> matched]

AddressError ==
    [status |-> "error", entityId |-> NoId, entityName |-> UnknownName,
     entityType |-> "Unknown", confidence |-> Zero, attributionMethod |-> "thrown",
     relatedAddresses |-> <<>>, matchedAddresses |-> <<>>]

\* steps 3 to 7, the address not being known to the store
AttributeUnknownAddress(es, map, address, ts) ==
    LET cc == combinedClustering(ts, RelatedInput(ts))
        related == IF Len(ts) > 0 THEN RelatedAddresses(cc.clusters, address) ELSE <<>>
        found == CollectHits(es, map, related, 1)
        att == calculateConsensusAttribution(found.hits, Len(related))
        beh == attributeByBehavior(es, address, ts)
    IN  IF Len(ts) > 0 /\ (\E i \in 1..Len(ts) : getInputThrows(ts[i]) \/ getOutputThrows(ts[i]))
        THEN AddressError
        ELSE IF Len(ts) > 0 /\ cc.status = "error" THEN AddressError
        ELSE IF found.status = "error" THEN AddressError
        ELSE IF Len(found.hits) > 0
        THEN AddressResult(att.entityId, att.entityName, att.entityType, att.confidence,
                           "cluster_analysis", related, att.matchedAddresses)
        ELSE IF beh.idx # 0 /\ Less(Hundredths(50), beh.score)
        THEN AddressResult(es[beh.idx].id, es[beh.idx].name, es[beh.idx].type, beh.score,
                           "behavioral_analysis", <<>>, <<>>)
        ELSE AddressResult(NoId, UnknownName, "Unknown", Zero, "none", <<>>, <<>>)

\* step 1: the direct lookup returns the entity's own confidenceScore
DirectMatch(entity) ==
    AddressResult(entity.id, entity.name, entity.type, Hundredths(entity.confidenceScore),
                  "direct_match", <<>>, <<>>)

attributeAddress(es, map, address, ts) ==
    LET known == findEntityForAddress(es, map, address)
    IN  IF known.status = "error" THEN AddressError
        ELSE IF known.entity.id # NoId THEN DirectMatch(known.entity)
        ELSE AttributeUnknownAddress(es, map, address, ts)

----------------------------------------------------------------------------
(* updateEntitiesWithAttributions.  u is the state one run works on:         *)
(* [entities, map, nextUuid] of the store and the run's updateResults         *)
(* [updated, created, skipped]                                                *)

DefaultThreshold == Hundredths(80)
NewClusterConfidence == 60      \* confidenceScore of an entity made from a cluster

\* which branch of the loop body an attribution takes
Classify(a, t) ==
    IF Less(a.confidence, t) THEN "low_confidence"
    ELSE IF a.entityId # NoId THEN "entity"
    ELSE IF Len(a.addresses) >= 3 THEN "create"
    ELSE "small"

\* the faulty variant: every cluster address is taken as new
NewAddressesUnfiltered(entity, a) == a.addresses

\* attribution.addresses.filter(addr => !entity.addresses.includes(addr))
NewAddresses(entity, a) ==
    SelectSeq(a.addresses, LAMBDA x : ~Includes(entity.addresses, x))

SkippedEntry(a, reason) ==
    [clusterId |-> a.clusterId, entityId |-> a.entityId, reason |-> reason]

UpdatedEntry(a, entity, new) ==
    [clusterId |-> a.clusterId, entityId |-> a.entityId, entityName |-> entity.name,
     addressesAdded |-> new]

CreatedEntry(a, entity) ==
    [clusterId |-> a.clusterId, entityId |-> entity.id, entityName |-> entity.name,
     addressCount |-> Len(a.addresses)]

Skip(u, a, reason) == [u EXCEPT !.skipped = Append(@, SkippedEntry(a, reason))]

\* the catch blocks sit inside the loop body: after a failure on cluster i of
\* n the loop goes on with cluster i + 1
AfterFailure(i, n) == i + 1

\* the part of the body after getEntityById returned entity: no new address,
\* or updateEntity with the entity's addresses followed by the new ones
WriteCluster(u, a, entity) ==
    LET new == NewAddresses(entity, a)
        w   == updateEntity(u.entities, u.map, a.entityId, entity.addresses \o new)
    IN  IF new = <<>> THEN Skip(u, a, "no_new_addresses")
        ELSE IF w.status = "ok"
        THEN [u EXCEPT !.entities = w.entities, !.map = w.map,
                       !.updated = Append(@, UpdatedEntry(a, w.entity, new))]
        ELSE [Skip(u, a, "update_error") EXCEPT !.entities = w.entities, !.map = w.map]

\* whether WriteCluster ended in the catch block
WriteFailed(u, a, entity) ==
    /\ NewAddresses(entity, a) # <<>>
    /\ updateEntity(u.entities, u.map, a.entityId,
                    entity.addresses \o NewAddresses(entity, a)).status = "error"

ClusterName(clusterId) == <<"Cluster", clusterId>>

\* the branch creating an entity for a large cluster without attribution
CreateCluster(u, a) ==
    LET c == createEntity(u.entities, u.map,
                          [name |-> ClusterName(a.clusterId), type |-> "Unknown",
                           addresses |-> a.addresses,
                           confidenceScore |-> NewClusterConfidence],
                          u.nextUuid)
    IN  IF c.status = "ok"
        THEN [u EXCEPT !.entities = c.entities, !.map = c.map, !.nextUuid = @ + 1,
                       !.created = Append(@, CreatedEntry(a, c.entity))]
        ELSE [Skip(u, a, "creation_error") EXCEPT
                 !.entities = c.entities, !.map = c.map, !.nextUuid = @ + 1]

CreateFailed(u, a) == \E k \in 1..Len(a.addresses) : ~IsString(a.addresses[k])

\* one whole pass of the loop body, nothing else running in between
ProcessCluster(u, a, t) ==
    LET cls == Classify(a, t)
        g   == getEntityById(u.entities, a.entityId)
    IN  IF cls = "low_confidence" THEN Skip(u, a, "low_confidence")
        ELSE IF cls = "entity"
        THEN IF g.status = "error" THEN Skip(u, a, "update_error")
             ELSE WriteCluster(u, a, g.entity)
        ELSE IF cls = "create" THEN CreateCluster(u, a)
        ELSE Skip(u, a, "small_unattributed_cluster")

\* whether that pass ended in a catch block
ProcessFailed(u, a, t) ==
    \/ /\ Classify(a, t) = "entity"
       /\ \/ getEntityById(u.entities, a.entityId).status = "error"
          \/ WriteFailed(u, a, getEntityById(u.entities, a.entityId).entity)
    \/ Classify(a, t) = "create" /\ CreateFailed(u, a)

RECURSIVE UpdateFold(_, _, _, _)
UpdateFold(u, results, t, i) ==
    IF i > Len(results) THEN u
    ELSE UpdateFold(ProcessCluster(u, results[i], t), results, t,
                    IF ProcessFailed(u, results[i], t)
                    THEN AfterFailure(i, Len(results)) ELSE i + 1)

\* the whole call, run alone: the store afterwards and the updateResults
updateEntitiesWithAttributions(es, map, uuid, results, t) ==
    UpdateFold([entities |-> es, map |-> map, nextUuid |-> uuid,
                updated |-> <<>>, created |-> <<>>, skipped |-> <<>>],
               results, t, 1)

----------------------------------------------------------------------------
(* identifyEntitiesFromTransactions *)

\* tx.inputs.forEach(input => input.address ...) on a null member
ExtractThrows(ts) ==
    \E i \in 1..Len(ts) : EntryThrows(ts[i].inputs) \/ EntryThrows(ts[i].outputs)

extractUniqueAddresses(ts) == AddressList(ts)

\* the faulty variant: step 4 is taken whatever the option says
ShouldUpdateAlways(options) == TRUE

\* options.updateEntities !== false
ShouldUpdateEntities(options) == options.updateEntities # "false"

\* options.confidenceThreshold || 0.8
ThresholdOption(options) ==
    IF options.hasThreshold /\ ~RatEq(options.threshold, Zero)
    THEN options.threshold ELSE DefaultThreshold

----------------------------------------------------------------------------
(* Specification SpecCommonInput: commonInputClustering, one transaction per  *)
(* step, the transactions taken in any order                                  *)

\* the parts of the state a specification does not use
Runs == {1, 2}

IdleRun == [pc |-> "idle", i |-> 1, entity |-> NullEntity,
            updated |-> <<>>, created |-> <<>>, skipped |-> <<>>]

NoCall == [op |-> "none", address |-> "", updateEntities |-> "absent",
           threshold |-> Zero, hasThreshold |-> FALSE]

StoreUnused ==
    /\ entities = <<>>
    /\ addressToEntityMap = [a \in LowerAddresses |-> NoId]
    /\ nextUuid = UuidBase + 1

UpdateUnused ==
    /\ attributionResults = [r \in Runs |-> <<>>]
    /\ confidenceThreshold = [r \in Runs |-> Zero]
    /\ run = [r \in Runs |-> IdleRun]

CallUnused == call = NoCall /\ ret = <<>>

NoBulk == [i |-> 0, batches |-> <<>>, batch |-> 0, started |-> {}, settled |-> {},
           results |-> {}, errors |-> <<>>]

BulkUnused == bulk = NoBulk

ClusterUnused ==
    /\ clusterIdCounter = 1
    /\ processed = {}
    /\ status = "ok"

AddrSeq4 == <<"a", "b", "c", "d">>

\* the index pairs i < j of a sequence
Pairs(q) == {p \in (1..Len(q)) \X (1..Len(q)) : p[1] < p[2]}

\* co-spends of two distinct addresses, a repeated input, a single input
CITxUniverse ==
    {Utxo(<<AddrSeq4[p[1]], AddrSeq4[p[2]]>>, <<>>) : p \in Pairs(AddrSeq4)}
    \cup {Utxo(<<"a", "a">>, <<>>), Utxo(<<"a">>, <<>>)}

InitCI ==
    /\ txs \in SeqUpTo(CITxUniverse, MaxTxCI)
    /\ pc = "ci"
    /\ clusters = <<>>
    /\ clusterIdCounter = 1
    /\ processed = {}
    /\ status = "ok"
    /\ StoreUnused /\ UpdateUnused /\ CallUnused /\ BulkUnused

CIState == [clusters |-> clusters, counter |-> clusterIdCounter, status |-> status]

\* process transaction i
CIProcess(i) ==
    LET st == CommonInputStep(CIState, txs[i])
    IN  /\ clusters' = st.clusters
        /\ clusterIdCounter' = st.counter
        /\ processed' = processed \cup {i}
        /\ UNCHANGED <<txs, pc, status, varsStore, varsUpdate, varsCall, bulk>>

CIPending(i) == pc = "ci" /\ i \in 1..Len(txs) /\ i \notin processed

CISkip ==
    \E i \in 1..MaxTxCI + 1 :
        /\ CIPending(i)
        /\ Len(getInputAddresses(txs[i])) <= 1
        /\ CIProcess(i)

CINew ==
    \E i \in 1..MaxTxCI + 1 :
        /\ CIPending(i)
        /\ Len(getInputAddresses(txs[i])) > 1
        /\ Len(ExistingClusters(getInputAddresses(txs[i]), clusters)) = 0
        /\ CIProcess(i)

CIExtend ==
    \E i \in 1..MaxTxCI + 1 :
        /\ CIPending(i)
        /\ Len(getInputAddresses(txs[i])) > 1
        /\ Len(ExistingClusters(getInputAddresses(txs[i]), clusters)) = 1
        /\ CIProcess(i)

CIMerge ==
    \E i \in 1..MaxTxCI + 1 :
        /\ CIPending(i)
        /\ Len(getInputAddresses(txs[i])) > 1
        /\ Len(ExistingClusters(getInputAddresses(txs[i]), clusters)) > 1
        /\ CIProcess(i)

CIReturn ==
    /\ pc = "ci"
    /\ processed = 1..Len(txs)
    /\ pc' = "ciDone"
    /\ UNCHANGED <<txs, clusters, clusterIdCounter, processed, status>>
    /\ UNCHANGED <<varsStore, varsUpdate, varsCall, bulk>>

NextCI == CISkip \/ CINew \/ CIExtend \/ CIMerge \/ CIReturn

SpecCommonInput == InitCI /\ [][NextCI]_vars

----------------------------------------------------------------------------
(* Specification SpecCluster: combinedClustering, one heuristic per step *)

AddrSeq == <<"a", "b", "c">>

\* simple transfers, co-spends with one output, one input with two outputs,
\* and three malformed records: no from/to, a list member without an address,
\* a null list member
TxUniverse ==
    {Simple(x, y) : x, y \in Addr}
    \cup {Utxo(<<AddrSeq[p[1]], AddrSeq[p[2]]>>, <<z>>) :
            p \in Pairs(AddrSeq), z \in Addr}
    \cup {Utxo(<<x>>, <<AddrSeq[p[1]], AddrSeq[p[2]]>>) :
            x \in Addr, p \in Pairs(AddrSeq)}
    \cup {Simple(Undef, Undef),
          Utxo(<<Undef, "a">>, <<"b">>),
          Utxo(<<NullEntry, "a">>, <<"b">>)}

InitCluster ==
    /\ txs \in SeqUpTo(TxUniverse, MaxTx)
    /\ pc = "commonInput"
    /\ clusters = <<>>
    /\ clusterIdCounter = 1
    /\ processed = {}
    /\ status = "ok"
    /\ StoreUnused /\ UpdateUnused /\ CallUnused /\ BulkUnused

\* a stage returned r: go on to the next stage, or leave with the error
StageResult(r, next) ==
    /\ status' = r.status
    /\ clusters' = r.clusters
    /\ pc' = IF r.status = "ok" THEN next ELSE "done"
    /\ UNCHANGED <<txs, clusterIdCounter, processed, varsStore, varsUpdate, varsCall, bulk>>

CommonInputStage ==
    /\ pc = "commonInput"
    /\ StageResult(commonInputClustering(txs), "changeAddress")

ChangeAddressStage ==
    /\ pc = "changeAddress"
    /\ StageResult(changeAddressIdentification(txs, clusters), "behavioral")

BehavioralStage ==
    /\ pc = "behavioral"
    /\ StageResult(CombineBehavioral(txs, clusters, AddressList(txs)), "done")

NextCluster == CommonInputStage \/ ChangeAddressStage \/ BehavioralStage

SpecCluster == InitCluster /\ [][NextCluster]_vars

----------------------------------------------------------------------------
(* Claims on clustering *)

\* C1: the clusters combinedClustering returns for a transaction list and the
\* addresses extracted from it are pairwise disjoint and their union is the
\* set of all addresses of the transactions.
C1_Partition ==
    (pc = "done" /\ WellFormed(txs)) =>
        /\ status = "ok"
        /\ PairwiseDisjoint(clusters)
        /\ Covered(clusters) = AllAddresses(txs)

\* two co-spends that share an input address
Linked(t1, t2) ==
    /\ Len(getInputAddresses(t1)) > 1
    /\ Len(getInputAddresses(t2)) > 1
    /\ Range(getInputAddresses(t1)) \cap Range(getInputAddresses(t2)) # {}

\* C2: after every processed transaction the clusters are pairwise disjoint;
\* when all are processed, in whatever order, the inputs of two co-spends that
\* share an address lie in one cluster and the partition is the one the given
\* order yields.
C2_MergeTransitivity ==
    /\ PairwiseDisjoint(clusters)
    /\ pc = "ciDone" =>
        /\ \A i, j \in 1..Len(txs) :
              Linked(txs[i], txs[j]) =>
                 \E c \in PartitionOf(clusters) :
                    Range(getInputAddresses(txs[i]))
                        \cup Range(getInputAddresses(txs[j])) \subseteq c
        /\ PartitionOf(clusters) = PartitionOf(commonInputClustering(txs).clusters)

\* C2 witness: {a,b} and {b,c} given in this order and processed in the
\* opposite one (b and c were clustered first), all three in one cluster
C2_Witness ==
    /\ pc = "ciDone"
    /\ txs = <<Utxo(<<"a", "b">>, <<>>), Utxo(<<"b", "c">>, <<>>)>>
    /\ Len(clusters) = 1
    /\ clusters[1].members = <<"b", "c", "a">>

\* C3: a record whose addresses cannot be read is skipped: when the run over
\* the readable records succeeds, so does the run over all records, and no
\* unreadable address is clustered.
C3_BadRecordSkipped ==
    (/\ pc = "done"
     /\ combinedClustering(GoodOnly(txs), AddressList(txs)).status = "ok") =>
        /\ status = "ok"
        /\ \A i \in 1..Len(clusters) :
              \A k \in 1..Len(clusters[i].members) : IsAddress(clusters[i].members[k])

----------------------------------------------------------------------------
(* Specification SpecAttribution: one call of attributeClusters on a cluster, *)
(* or of attributeAddress on an address and its transactions, over a store    *)
(* holding the mock entities                                                  *)

MaxClusterSize == 3   \* addresses of the cluster handed to attributeClusters
MaxAttrTx == 3        \* transactions handed to attributeAddress

\* confidence scores an entity of the store may carry, in hundredths
ConfScores == {0, Binance, 100}

\* addresses of entity 1, of entity 2, and unknown ones
ClusterAddr == {"k1", "k2", "k3", "x"}

AttrTxUniverse == {Simple(p, q) : p, q \in {"x", "y", "K1"}}

InitAttribution ==
    /\ \E c1, c2 \in ConfScores : entities = MockEntities(c1, c2, Uniswap)
    /\ addressToEntityMap = BuildAddressMap(entities)
    /\ nextUuid = UuidBase + 1
    /\ \/ /\ \E m \in SeqUpTo(ClusterAddr, MaxClusterSize) :
                m # <<>> /\ clusters = <<[id |-> ClusterId(1), members |-> m]>>
          /\ txs = <<>>
          /\ call = [NoCall EXCEPT !.op = "attributeClusters"]
       \/ /\ clusters = <<>>
          /\ txs \in SeqUpTo(AttrTxUniverse, MaxAttrTx)
          /\ \E a \in {"x", "k1"} :
                call = [NoCall EXCEPT !.op = "attributeAddress", !.address = a]
    /\ pc = "call"
    /\ ret = <<>>
    /\ ClusterUnused /\ UpdateUnused /\ BulkUnused

AttributeClustersCall ==
    /\ pc = "call"
    /\ call.op = "attributeClusters"
    /\ ret' = attributeClusters(entities, addressToEntityMap, clusters)
    /\ pc' = "returned"
    /\ UNCHANGED <<txs, clusters, clusterIdCounter, processed, status, call, bulk>>
    /\ UNCHANGED <<varsStore, varsUpdate>>

AttributeAddressCall ==
    /\ pc = "call"
    /\ call.op = "attributeAddress"
    /\ ret' = attributeAddress(entities, addressToEntityMap, call.address, txs)
    /\ pc' = "returned"
    /\ UNCHANGED <<txs, clusters, clusterIdCounter, processed, status, call, bulk>>
    /\ UNCHANGED <<varsStore, varsUpdate>>

NextAttribution == AttributeClustersCall \/ AttributeAddressCall

SpecAttribution == InitAttribution /\ [][NextAttribution]_vars

ReturnedClusters == pc = "returned" /\ call.op = "attributeClusters" /\ ret.status = "ok"
ReturnedAddress == pc = "returned" /\ call.op = "attributeAddress" /\ ret.status = "ok"

InConfidenceRange(c) == Leq(Zero, c) /\ Leq(c, Hundredths(99))

\* C4: the confidence attributeClusters returns for a cluster and the one
\* attributeAddress returns on any path lies within [0, 0.99], the entities of
\* the store having a confidenceScore within [0, 1].
C4_ConfidenceBounds ==
    /\ ReturnedClusters =>
          \A i \in 1..Len(ret.results) : InConfidenceRange(ret.results[i].confidence)
    /\ ReturnedAddress => InConfidenceRange(ret.confidence)

\* the hits of the cluster under attribution
HitsOf(members) == CollectHits(entities, addressToEntityMap, members, 1).hits

\* the entity with the most matched addresses, the one met first among equals
MostMatchedFirstMet(hits) ==
    LET ord == InsertionOrder(hits)
        top == CHOOSE n \in 0..Len(hits) :
                  /\ \E k \in 1..Len(ord) : HitCount(hits, ord[k]) = n
                  /\ \A k \in 1..Len(ord) : HitCount(hits, ord[k]) <= n
    IN  ord[CHOOSE k \in 1..Len(ord) :
                /\ HitCount(hits, ord[k]) = top
                /\ \A j \in 1..(k - 1) : HitCount(hits, ord[j]) # top]

\* C5: the consensus attribution of a cluster with hits is the entity with the
\* most matched addresses, and among several with the most, the one whose hit
\* was met first in cluster-address order.
C5_TieBreakFirstEncountered ==
    ReturnedClusters =>
        \A i \in 1..Len(ret.results) :
            HitsOf(ret.results[i].addresses) # <<>> =>
                ret.results[i].entityId = MostMatchedFirstMet(HitsOf(ret.results[i].addresses))

----------------------------------------------------------------------------
(* Update runs, one await-to-await segment per step.  The segment up to the   *)
(* first await reads the entity (getEntityById runs when it is called); the   *)
(* next one computes the new addresses from the entity read and writes.       *)

Cur(r) == attributionResults[r][run[r].i]

U(r) ==
    [entities |-> entities, map |-> addressToEntityMap, nextUuid |-> nextUuid,
     updated |-> run[r].updated, created |-> run[r].created,
     skipped |-> run[r].skipped]

Commit(r, u, pc2, i2, ent) ==
    /\ entities' = u.entities
    /\ addressToEntityMap' = u.map
    /\ nextUuid' = u.nextUuid
    /\ run' = [run EXCEPT ![r] =
                  [pc |-> pc2, i |-> i2, entity |-> ent, updated |-> u.updated,
                   created |-> u.created, skipped |-> u.skipped]]
    /\ UNCHANGED <<attributionResults, confidenceThreshold, varsCluster, varsCall, bulk>>

InLoop(r) == run[r].pc = "loop" /\ run[r].i <= Len(attributionResults[r])

Class(r) == Classify(Cur(r), confidenceThreshold[r])

\* low_confidence and small_unattributed_cluster: no store call
UpdSkip ==
    \E r \in Runs :
        /\ InLoop(r)
        /\ Class(r) \in {"low_confidence", "small"}
        /\ Commit(r, ProcessCluster(U(r), Cur(r), confidenceThreshold[r]),
                  "loop", run[r].i + 1, NullEntity)

\* await entityService.getEntityById(attribution.entityId)
UpdRead ==
    \E r \in Runs :
        LET g == getEntityById(entities, Cur(r).entityId)
        IN  /\ InLoop(r)
            /\ Class(r) = "entity"
            /\ IF g.status = "error"
               THEN Commit(r, Skip(U(r), Cur(r), "update_error"), "loop",
                           AfterFailure(run[r].i, Len(attributionResults[r])),
                           NullEntity)
               ELSE Commit(r, U(r), "write", run[r].i, g.entity)

\* the filter against the entity read, then await entityService.updateEntity
UpdWrite ==
    \E r \in Runs :
        /\ run[r].pc = "write"
        /\ Commit(r, WriteCluster(U(r), Cur(r), run[r].entity), "loop",
                  IF WriteFailed(U(r), Cur(r), run[r].entity)
                  THEN AfterFailure(run[r].i, Len(attributionResults[r]))
                  ELSE run[r].i + 1,
                  NullEntity)

\* await entityService.createEntity
UpdCreate ==
    \E r \in Runs :
        /\ InLoop(r)
        /\ Class(r) = "create"
        /\ Commit(r, CreateCluster(U(r), Cur(r)), "loop",
                  IF CreateFailed(U(r), Cur(r))
                  THEN AfterFailure(run[r].i, Len(attributionResults[r]))
                  ELSE run[r].i + 1,
                  NullEntity)

\* return updateResults
UpdReturn ==
    \E r \in Runs :
        /\ run[r].pc = "loop"
        /\ run[r].i > Len(attributionResults[r])
        /\ run' = [run EXCEPT ![r].pc = "done"]
        /\ UNCHANGED <<attributionResults, confidenceThreshold, varsStore,
                       varsCluster, varsCall, bulk>>

NextUpdate == UpdSkip \/ UpdRead \/ UpdWrite \/ UpdCreate \/ UpdReturn

\* an attribution as a caller of updateEntitiesWithAttributions may hand in
Attribution(e, c, addrs) ==
    [clusterId |-> ClusterId(0), entityId |-> e, entityName |-> UnknownName,
     entityType |-> "Unknown", confidence |-> c, addresses |-> addrs,
     matchedAddresses |-> <<>>]

\* the keys of attributionResults are distinct: entry k gets cluster_k
Keyed(list) == [k \in 1..Len(list) |-> [list[k] EXCEPT !.clusterId = ClusterId(k)]]

StartRun == [IdleRun EXCEPT !.pc = "loop"]

MockStore ==
    /\ entities = MockEntities(Binance, Coinbase, Uniswap)
    /\ addressToEntityMap = BuildAddressMap(entities)
    /\ nextUuid = UuidBase + 1

----------------------------------------------------------------------------
(* Specification SpecUpdate: one call of updateEntitiesWithAttributions *)

MaxClusters == 2     \* attributions handed to the call

UpdUniverse ==
    {Attribution(e, c, addrs) :
        e \in {NoId, 1, 9},     \* 9: an entityId no entity of the store carries
        c \in {Zero, Hundredths(90)},
        addrs \in {<<"K1">>, <<"K1", "x">>, <<"x", "y", "z">>, <<"x", "y", JNull>>}}

InitUpdate ==
    /\ MockStore
    /\ \E list \in SeqUpTo(UpdUniverse, MaxClusters) :
          attributionResults = [r \in Runs |-> IF r = 1 THEN Keyed(list) ELSE <<>>]
    /\ \E t \in {Zero, DefaultThreshold} : confidenceThreshold = [r \in Runs |-> t]
    /\ run = [r \in Runs |-> IF r = 1 THEN StartRun ELSE IdleRun]
    /\ txs = <<>> /\ pc = "update" /\ clusters = <<>>
    /\ ClusterUnused /\ CallUnused /\ BulkUnused

SpecUpdate == InitUpdate /\ [][NextUpdate]_vars

----------------------------------------------------------------------------
(* Specification SpecConcurrent: two calls of updateEntitiesWithAttributions  *)
(* under way at once, their segments interleaved                              *)

ConcUniverse ==
    {Attribution(e, c, addrs) :
        e \in {NoId, 1},
        c \in {Zero, Hundredths(90)},
        addrs \in {<<"K1", "x">>, <<"K1", "y">>, <<"x", "y", "z">>}}

ConcLists == {<<>>} \cup {<<a>> : a \in ConcUniverse}

InitConcurrent ==
    /\ MockStore
    /\ \E l1, l2 \in ConcLists :
          attributionResults = [r \in Runs |-> IF r = 1 THEN Keyed(l1) ELSE Keyed(l2)]
    /\ confidenceThreshold = [r \in Runs |-> DefaultThreshold]
    /\ run = [r \in Runs |-> StartRun]
    /\ txs = <<>> /\ pc = "update" /\ clusters = <<>>
    /\ ClusterUnused /\ CallUnused /\ BulkUnused

SpecConcurrent == InitConcurrent /\ [][NextUpdate]_vars

----------------------------------------------------------------------------
(* Claims on updateEntitiesWithAttributions *)

LastOf(q) == q[Len(q)]

AllStrings(q) == \A k \in 1..Len(q) : IsString(q[k])

\* the update results of run r grew by exactly one skipped entry with the reason
SkippedWith(r, reason) ==
    /\ run'[r].skipped = Append(run[r].skipped, SkippedEntry(Cur(r), reason))
    /\ run'[r].updated = run[r].updated
    /\ run'[r].created = run[r].created

\* the step of run 1 that handles a cluster below the threshold
C7_LowConfidenceStep ==
    (InLoop(1) /\ Less(Cur(1).confidence, confidenceThreshold[1]))
        => (SkippedWith(1, "low_confidence") /\ UNCHANGED varsStore)

\* the step of run 1 that follows the read of a known entity
C7_KnownEntityStep ==
    (/\ run[1].pc = "write"
     /\ AllStrings(Cur(1).addresses)
     /\ AllStrings(run[1].entity.addresses)) =>
        LET idx     == EntityIndex(entities, Cur(1).entityId)
            before  == entities[idx].addresses
            after   == entities'[idx].addresses
            missing == Range(Cur(1).addresses) \ Range(before)
        IN  IF missing = {}
            THEN SkippedWith(1, "no_new_addresses") /\ UNCHANGED varsStore
            ELSE /\ Len(run'[1].updated) = Len(run[1].updated) + 1
                 /\ run'[1].skipped = run[1].skipped
                 /\ LastOf(run'[1].updated).clusterId = Cur(1).clusterId
                 /\ LastOf(run'[1].updated).entityId = Cur(1).entityId
                 /\ after = before \o LastOf(run'[1].updated).addressesAdded
                 /\ Range(LastOf(run'[1].updated).addressesAdded) = missing
                 /\ \A j \in 1..Len(entities) :
                        j # idx => entities'[j] = entities[j]
                 /\ Len(entities') = Len(entities)

\* C7: in one call of updateEntitiesWithAttributions(results, t), a cluster
\* attributed to a known entity with confidence >= t leaves the entity's
\* address list as its previous list followed by exactly the cluster addresses
\* it did not contain, reported as addressesAdded, or is skipped with
\* no_new_addresses when there are none; a cluster with confidence < t is
\* skipped with low_confidence and nothing is written to the store.
C7_AppendsExactlyMissing == [][C7_LowConfidenceStep /\ C7_KnownEntityStep]_vars

\* a cluster overlapping entity 1 in K1 was handled: only x was added
C7_Witness ==
    /\ run[1].pc = "done"
    /\ \E k \in 1..Len(run[1].updated) :
          /\ run[1].updated[k].addressesAdded = <<"x">>
          /\ attributionResults[1][1].addresses = <<"K1", "x">>
    /\ entities[1].addresses = <<"K1", "K2", "x">>
    /\ \E k \in 1..Len(run[1].skipped) : run[1].skipped[k].reason = "low_confidence"

\* the entries of run r's update results that carry the cluster id
EntriesFor(r, id) ==
    [updated |-> {k \in 1..Len(run[r].updated) : run[r].updated[k].clusterId = id},
     created |-> {k \in 1..Len(run[r].created) : run[r].created[k].clusterId = id},
     skipped |-> {k \in 1..Len(run[r].skipped) : run[r].skipped[k].clusterId = id}]

ExactlyOnce(r, id) ==
    LET e == EntriesFor(r, id)
    IN  Cardinality(e.updated) + Cardinality(e.created) + Cardinality(e.skipped) = 1

SkippedAs(r, id, reasons) ==
    \E k \in EntriesFor(r, id).skipped : run[r].skipped[k].reason \in reasons

\* what the returned results must say of cluster a, by what a is alone
RecordedByCategory(r, a, t) ==
    LET cls == Classify(a, t)
    IN  CASE cls = "low_confidence" -> SkippedAs(r, a.clusterId, {"low_confidence"})
          [] cls = "small" -> SkippedAs(r, a.clusterId, {"small_unattributed_cluster"})
          [] cls = "create" ->
                IF AllStrings(a.addresses)
                THEN EntriesFor(r, a.clusterId).created # {}
                ELSE SkippedAs(r, a.clusterId, {"creation_error"})
          [] cls = "entity" ->
                IF EntityIndex(entities, a.entityId) = 0 \/ ~AllStrings(a.addresses)
                THEN SkippedAs(r, a.clusterId, {"update_error"})
                ELSE \/ EntriesFor(r, a.clusterId).updated # {}
                     \/ SkippedAs(r, a.clusterId, {"no_new_addresses"})

\* C8: a store call failing for one cluster does not end the call: once
\* updateEntitiesWithAttributions has returned, the failing cluster is in
\* skipped with update_error or creation_error, every other cluster is
\* recorded as its own confidence, entity and size demand, and every cluster
\* id is in exactly one of updated, created, skipped.
C8_FailureIsPerCluster ==
    run[1].pc = "done" =>
        \A k \in 1..Len(attributionResults[1]) :
            /\ ExactlyOnce(1, attributionResults[1][k].clusterId)
            /\ RecordedByCategory(1, attributionResults[1][k], confidenceThreshold[1])

\* the first cluster failed in the store, the second was still written
C8_Witness ==
    /\ run[1].pc = "done"
    /\ Len(attributionResults[1]) = 2
    /\ SkippedAs(1, ClusterId(1), {"update_error", "creation_error"})
    /\ \/ EntriesFor(1, ClusterId(2)).updated # {}
       \/ EntriesFor(1, ClusterId(2)).created # {}

\* C9: whatever the interleaving of two update runs, the three entities the
\* store started with are still there with all their addresses, and every
\* address a run reported as added to an entity is still on that entity.
C9_NeverDeletes ==
    /\ \A i \in 1..3 :
          /\ Len(entities) >= i
          /\ entities[i].id = i
          /\ Range(MockEntities(Binance, Coinbase, Uniswap)[i].addresses)
                \subseteq Range(entities[i].addresses)
    /\ \A r \in Runs : \A k \in 1..Len(run[r].updated) :
          Range(run[r].updated[k].addressesAdded)
             \subseteq Range(entities[EntityIndex(entities, run[r].updated[k].entityId)].addresses)

----------------------------------------------------------------------------
(* Specification SpecIdentify: one call of identifyEntitiesFromTransactions  *)
(* against the mock store                                                     *)

MaxIdTx == 2     \* transactions handed to the call

IdTxUniverse ==
    {Utxo(<<"x", "y">>, <<"z">>), Utxo(<<"x", "y">>, <<"x">>), Simple("x", "y"),
     Utxo(<<"K1", "x">>, <<"y">>), Utxo(<<"K1", "K2">>, <<"x">>),
     Simple("K1", "k2"), Utxo(<<NullEntry, "x">>, <<"y">>)}

\* the options object: updateEntities absent, true or false;
\* confidenceThreshold absent, 0 or 0.5.  earlier holds what the call before
\* this one, on the same transactions and options, returned
IdOptions ==
    {[op |-> "identify", address |-> "", updateEntities |-> u,
      threshold |-> t[2], hasThreshold |-> t[1], earlier |-> <<>>] :
        u \in {"absent", "true", "false"},
        t \in {<<FALSE, Zero>>, <<TRUE, Zero>>, <<TRUE, Hundredths(50)>>}}

IdentifyFailed ==
    [status |-> "error", clusters |-> <<>>, attributions |-> <<>>,
     hasUpdates |-> FALSE, updates |-> [updated |-> <<>>, created |-> <<>>,
                                        skipped |-> <<>>]]

InitIdentify ==
    /\ MockStore
    /\ txs \in SeqUpTo(IdTxUniverse, MaxIdTx)
    /\ call \in IdOptions
    /\ ret = <<>>
    /\ pc = "identify"
    /\ clusters = <<>>
    /\ ClusterUnused
    /\ UpdateUnused
    /\ BulkUnused

Throw ==
    /\ ret' = IdentifyFailed
    /\ pc' = "returned"

\* steps 1 and 2: extractUniqueAddresses, then combinedClustering
IdentifyCluster ==
    LET cc == combinedClustering(txs, extractUniqueAddresses(txs))
    IN  /\ pc = "identify"
        /\ IF ExtractThrows(txs) \/ cc.status = "error"
           THEN Throw /\ UNCHANGED clusters
           ELSE clusters' = cc.clusters /\ pc' = "attribute" /\ UNCHANGED ret
        /\ UNCHANGED <<txs, clusterIdCounter, processed, status, call, bulk>>
        /\ UNCHANGED <<varsStore, varsUpdate>>

\* step 3: attributeClusters
IdentifyAttribute ==
    LET at == attributeClusters(entities, addressToEntityMap, clusters)
    IN  /\ pc = "attribute"
        /\ IF at.status = "error"
           THEN Throw /\ UNCHANGED attributionResults
           ELSE /\ attributionResults' = [attributionResults EXCEPT ![1] = at.results]
                /\ pc' = IF ShouldUpdateEntities(call) THEN "update" ELSE "return"
                /\ UNCHANGED ret
        /\ UNCHANGED <<txs, clusters, clusterIdCounter, processed, status, call, bulk>>
        /\ UNCHANGED <<varsStore, confidenceThreshold, run>>

\* step 4: updateEntitiesWithAttributions with options.confidenceThreshold || 0.8
IdentifyUpdate ==
    LET t == ThresholdOption(call)
        u == updateEntitiesWithAttributions(entities, addressToEntityMap, nextUuid,
                                            attributionResults[1], t)
    IN  /\ pc = "update"
        /\ confidenceThreshold' = [confidenceThreshold EXCEPT ![1] = t]
        /\ entities' = u.entities
        /\ addressToEntityMap' = u.map
        /\ nextUuid' = u.nextUuid
        /\ run' = [run EXCEPT ![1] =
                      [pc |-> "done", i |-> Len(attributionResults[1]) + 1,
                       entity |-> NullEntity, updated |-> u.updated,
                       created |-> u.created, skipped |-> u.skipped]]
        /\ pc' = "return"
        /\ UNCHANGED <<txs, clusters, clusterIdCounter, processed, status>>
        /\ UNCHANGED <<attributionResults, varsCall, bulk>>

\* step 5: the result object; updates is null when step 4 was not taken
IdentifyReturn ==
    /\ pc = "return"
    /\ ret' = [status |-> "ok", clusters |-> clusters,
               attributions |-> attributionResults[1],
               hasUpdates |-> ShouldUpdateEntities(call),
               updates |-> [updated |-> run[1].updated, created |-> run[1].created,
                            skipped |-> run[1].skipped]]
    /\ pc' = "returned"
    /\ UNCHANGED <<txs, clusters, clusterIdCounter, processed, status, call, bulk>>
    /\ UNCHANGED <<varsStore, varsUpdate>>

\* the caller calls again with the same transactions and options: the locals
\* of the call are fresh, the store is as the first call left it
IdentifyAgain ==
    /\ pc = "returned"
    /\ call.op = "identify"
    /\ call.earlier = <<>>
    /\ call' = [call EXCEPT !.earlier = <<ret>>]
    /\ ret' = <<>>
    /\ pc' = "identify"
    /\ clusters' = <<>>
    /\ attributionResults' = [attributionResults EXCEPT ![1] = <<>>]
    /\ confidenceThreshold' = [confidenceThreshold EXCEPT ![1] = Zero]
    /\ run' = [run EXCEPT ![1] = IdleRun]
    /\ UNCHANGED <<txs, clusterIdCounter, processed, status, bulk>>
    /\ UNCHANGED varsStore

NextIdentify ==
    \/ IdentifyCluster \/ IdentifyAttribute \/ IdentifyUpdate \/ IdentifyReturn
    \/ IdentifyAgain

SpecIdentify == InitIdentify /\ [][NextIdentify]_vars

Returned == pc = "returned" /\ call.op = "identify" /\ ret.status = "ok"

CreatedFor(a) ==
    \E k \in 1..Len(ret.updates.created) :
        /\ ret.updates.created[k].clusterId = a.clusterId
        /\ \E e \in 1..Len(entities) :
              /\ entities[e].id = ret.updates.created[k].entityId
              /\ entities[e].name = ClusterName(a.clusterId)
              /\ entities[e].confidenceScore = NewClusterConfidence
              /\ entities[e].addresses = a.addresses

SkippedSmall(a) ==
    \E k \in 1..Len(ret.updates.skipped) :
        /\ ret.updates.skipped[k].clusterId = a.clusterId
        /\ ret.updates.skipped[k].reason = "small_unattributed_cluster"

\* C6: when identifyEntitiesFromTransactions has run with entity updates
\* enabled and no confidenceThreshold option, every attribution with entityId
\* null is handled by its size: three addresses or more have a new entity
\* named after the cluster id with confidenceScore 0.6 in updates.created,
\* fewer are in updates.skipped with reason small_unattributed_cluster.
C6_UnattributedBySize ==
    (Returned /\ ShouldUpdateEntities(call) /\ ~call.hasThreshold) =>
        \A k \in 1..Len(ret.attributions) :
            ret.attributions[k].entityId = NoId =>
                IF Len(ret.attributions[k].addresses) >= 3
                THEN CreatedFor(ret.attributions[k])
                ELSE SkippedSmall(ret.attributions[k])

----------------------------------------------------------------------------
(* Risk scoring.  Weights and type risks are held in tenths; a score is a     *)
(* rational                                                                    *)

RECURSIVE Gcd(_, _)
Gcd(m, n) == IF n = 0 THEN m ELSE Gcd(n, m % n)

\* a rational in lowest terms (numerator >= 0, denominator > 0)
Reduce(x) ==
    CHOOSE r \in {LET g == Gcd(v[1], v[2])
                  IN  <<v[1] \div g, v[2] \div g>> : v \in {x}} : TRUE

RatAdd(x, y) == Reduce(<<x[1] * y[2] + y[1] * x[2], x[2] * y[2]>>)
RatSub(x, y) == Reduce(<<x[1] * y[2] - y[1] * x[2], x[2] * y[2]>>)
RatMul(x, y) == Reduce(<<Reduce(x)[1] * Reduce(y)[1], Reduce(x)[2] * Reduce(y)[2]>>)
Tenths(n) == <<n, 10>>
One == <<1, 1>>

RiskFactorNames ==
    {"mixerInteraction", "sanctionedEntity", "darknetInteraction", "highRiskExchange",
     "unusualActivityPattern", "newAddress", "highValueTransfers", "rapidFundMovement",
     "manyHops", "lowTransparencyEntity"}

\* RISK_WEIGHTS, in tenths
RISK_WEIGHTS(factor) ==
    CASE factor = "mixerInteraction" -> 8
      [] factor = "sanctionedEntity" -> 9
      [] factor = "darknetInteraction" -> 7
      [] factor = "highRiskExchange" -> 6
      [] factor = "unusualActivityPattern" -> 5
      [] factor = "newAddress" -> 4
      [] factor = "highValueTransfers" -> 5
      [] factor = "rapidFundMovement" -> 6
      [] factor = "manyHops" -> 4
      [] factor = "lowTransparencyEntity" -> 5

RiskTableTypes ==
    {"Mixer", "DarknetMarket", "Sanctioned", "HighRiskExchange", "Exchange",
     "DeFi Protocol", "Token", "Wallet", "Unknown"}

\* ENTITY_TYPE_RISK, in tenths, for the types of the table
ENTITY_TYPE_RISK(type) ==
    CASE type \in {"Mixer", "DarknetMarket"} -> 9
      [] type = "Sanctioned" -> 10
      [] type = "HighRiskExchange" -> 7
      [] type \in {"Exchange", "Token", "Wallet"} -> 2
      [] type = "DeFi Protocol" -> 3
      [] type = "Unknown" -> 5

\* entityInfo.entityType ? (ENTITY_TYPE_RISK[type] || ENTITY_TYPE_RISK.Unknown)
\*                       : ENTITY_TYPE_RISK.Unknown
EntityTypeRisk(type) ==
    IF type \in RiskTableTypes THEN ENTITY_TYPE_RISK(type) ELSE ENTITY_TYPE_RISK("Unknown")

\* the placeholder detectors
hasMixerInteractions == FALSE
hasDarknetInteractions == FALSE
hasUnusualActivityPattern == FALSE
hasHighValueTransfers == FALSE
hasRapidFundMovement == FALSE
hasManyHops == FALSE

\* on the transaction list of calculateAddressRisk, which is always empty
isNewAddress(transactions) == Len(transactions) = 0

isLowTransparencyEntity(entityInfo) ==
    entityInfo.entityType = "Unknown" \/ Less(entityInfo.confidence, Tenths(3))

\* the keys of the factors object
detectRiskFactors(transactions, entityInfo) ==
    {f \in RiskFactorNames :
        CASE f = "mixerInteraction" ->
                entityInfo.entityType = "Mixer" \/ hasMixerInteractions
          [] f = "sanctionedEntity" -> entityInfo.entityType = "Sanctioned"
          [] f = "darknetInteraction" ->
                entityInfo.entityType = "DarknetMarket" \/ hasDarknetInteractions
          [] f = "highRiskExchange" -> entityInfo.entityType = "HighRiskExchange"
          [] f = "unusualActivityPattern" -> hasUnusualActivityPattern
          [] f = "newAddress" -> isNewAddress(transactions)
          [] f = "highValueTransfers" -> hasHighValueTransfers
          [] f = "rapidFundMovement" -> hasRapidFundMovement
          [] f = "manyHops" -> hasManyHops
          [] f = "lowTransparencyEntity" -> isLowTransparencyEntity(entityInfo)}

RECURSIVE SumWeights(_)
SumWeights(factors) ==
    IF factors = {} THEN 0
    ELSE LET f == CHOOSE f \in factors : TRUE
         IN  RISK_WEIGHTS(f) + SumWeights(factors \ {f})

MaxWeight(factors) ==
    IF factors = {} THEN 0
    ELSE CHOOSE w \in {RISK_WEIGHTS(f) : f \in factors} :
             \A f \in factors : RISK_WEIGHTS(f) <= w

\* (factorScore / factorCount) * 0.7 + (maxFactorScore * 0.3), or 0
NormalizedFactorScore(factors) ==
    IF factors = {} THEN Zero
    ELSE RatAdd(<<7 * SumWeights(factors), 100 * Cardinality(factors)>>,
                <<3 * MaxWeight(factors), 100>>)

\* the faulty variant: no upper cap
CapRiskScoreMissing(score) == score

\* Math.min(0.95, score)
CapRiskScore(score) == RatMin(Hundredths(95), score)

\* the score of calculateRiskScore(riskFactors, entityInfo)
calculateRiskScore(riskFactors, entityInfo) ==
    CHOOSE score \in
        {CapRiskScore(RatAdd(base, RatMul(RatSub(One, base), n))) :
            base \in {RatMin(Tenths(7),
                             RatMul(Tenths(EntityTypeRisk(entityInfo.entityType)),
                                    entityInfo.confidence))},
            n \in {NormalizedFactorScore(riskFactors)}} : TRUE

riskLevelFromScore(score) ==
    IF Leq(Tenths(8), score) THEN "Very High"
    ELSE IF Leq(Tenths(6), score) THEN "High"
    ELSE IF Leq(Tenths(4), score) THEN "Medium"
    ELSE IF Leq(Tenths(2), score) THEN "Low"
    ELSE "Very Low"

EntityInfo(id, name, type, conf, method, st) ==
    [status |-> st, entityId |-> id, entityName |-> name, entityType |-> type,
     confidence |-> conf, method |-> method]

\* the result of identifyAddressEntity, given what findEntityForAddress
\* (known) and attributeAddress (att) return
IdentifyFrom(known, att, performAnalysis) ==
    IF known.status = "error"
    THEN EntityInfo(NoId, UnknownName, "Unknown", Zero, "thrown", "error")
    ELSE IF known.entity.id # NoId
    THEN EntityInfo(known.entity.id, known.entity.name, known.entity.type,
                    Hundredths(known.entity.confidenceScore), "existing_entry", "ok")
    ELSE IF ~performAnalysis
    THEN EntityInfo(NoId, UnknownName, "Unknown", Zero, "none", "ok")
    ELSE IF att.status = "error"
    THEN EntityInfo(NoId, UnknownName, "Unknown", Zero, "thrown", "error")
    ELSE EntityInfo(att.entityId, att.entityName, att.entityType, att.confidence,
                    att.attributionMethod, "ok")

\* identifyAddressEntity(address, {performAnalysis}); the transactions it hands
\* to attributeAddress are the empty placeholder list
identifyAddressEntity(es, map, address, performAnalysis) ==
    IdentifyFrom(findEntityForAddress(es, map, address),
                 attributeAddress(es, map, address, <<>>), performAnalysis)

\* the faulty variant: the identification failure is not caught
RiskEntityInfoUncaught(id) ==
    [status |-> id.status, entityId |-> id.entityId, entityName |-> id.entityName,
     entityType |-> id.entityType, confidence |-> id.confidence]

\* the entityInfo calculateAddressRisk goes on with: the identification, or
\* the Unknown stand-in when it threw (the inner try/catch)
RiskEntityInfo(id) ==
    IF id.status = "error"
    THEN [status |-> "ok", entityId |-> NoId, entityName |-> UnknownName,
          entityType |-> "Unknown", confidence |-> Zero]
    ELSE [status |-> "ok", entityId |-> id.entityId, entityName |-> id.entityName,
          entityType |-> id.entityType, confidence |-> id.confidence]

\* step 5 of calculateAddressRisk
RiskAssessment(address, entityInfo, factors, score) ==
    [status |-> "ok", address |-> address, entityId |-> entityInfo.entityId,
     entityName |-> entityInfo.entityName, entityType |-> entityInfo.entityType,
     riskScore |-> score, riskLevel |-> riskLevelFromScore(score),
     riskFactors |-> factors]

\* the outer catch: throw new Error(`Risk scoring failed: ...`)
RiskFailed(address) ==
    [status |-> "error", address |-> address, entityId |-> NoId,
     entityName |-> UnknownName, entityType |-> "Unknown", riskScore |-> Zero,
     riskLevel |-> "none", riskFactors |-> {}]

\* steps 3 to 5, on given factors
AssessFactors(address, entityInfo, factors) ==
    CHOOSE risk \in {RiskAssessment(address, entityInfo, factors, riskDetails) :
                        riskDetails \in {calculateRiskScore(factors, entityInfo)}} : TRUE

\* steps 2 to 5: the transactions are the empty placeholder list; a throw of
\* step 1 that was not caught ends the call in the outer catch
AssessEntity(address, entityInfo) ==
    IF entityInfo.status = "error" THEN RiskFailed(address)
    ELSE AssessFactors(address, entityInfo, detectRiskFactors(<<>>, entityInfo))

calculateAddressRisk(es, map, address) ==
    AssessEntity(address,
                 RiskEntityInfo(identifyAddressEntity(es, map, address, TRUE)))

----------------------------------------------------------------------------
(* Specification SpecRisk: calculateAddressRisk against a store whose first   *)
(* entity has any type and confidence, and calculateRiskScore on every set of *)
(* risk factors                                                                *)

\* the types of the risk table, one absent from it, and a missing type
EntityTypes == RiskTableTypes \cup {"Other", Undef}

\* confidenceScore values of [0, 1], in hundredths
RiskConfidences == {0, 25, 30, 95, 100}

RiskAddresses == {"K1", "K3", "x", JNull}

RiskStores ==
    {[MockEntities(c, Coinbase, Uniswap) EXCEPT ![1].type = ty] :
        c \in RiskConfidences, ty \in EntityTypes}

InitRisk ==
    /\ \/ /\ entities \in RiskStores
          /\ \E a \in RiskAddresses :
                call = [op |-> "calculateAddressRisk", address |-> a]
       \/ /\ entities = MockEntities(Binance, Coinbase, Uniswap)
          /\ \E ty \in EntityTypes, c \in RiskConfidences,
                fs \in SUBSET RiskFactorNames :
                call = [op |-> "calculateRiskScore", riskFactors |-> fs,
                        entityInfo |-> [status |-> "ok", entityId |-> NoId,
                                        entityName |-> UnknownName,
                                        entityType |-> ty,
                                        confidence |-> Hundredths(c)]]
    /\ addressToEntityMap = BuildAddressMap(entities)
    /\ nextUuid = UuidBase + 1
    /\ ret = <<>>
    /\ pc = "call"
    /\ txs = <<>>
    /\ clusters = <<>>
    /\ ClusterUnused
    /\ UpdateUnused
    /\ BulkUnused

CalculateAddressRiskCall ==
    /\ pc = "call"
    /\ call.op = "calculateAddressRisk"
    /\ ret' = calculateAddressRisk(entities, addressToEntityMap, call.address)
    /\ pc' = "returned"
    /\ UNCHANGED <<txs, clusters, clusterIdCounter, processed, status, call, bulk>>
    /\ UNCHANGED <<varsStore, varsUpdate>>

CalculateRiskScoreCall ==
    /\ pc = "call"
    /\ call.op = "calculateRiskScore"
    /\ ret' = AssessFactors("", call.entityInfo, call.riskFactors)
    /\ pc' = "returned"
    /\ UNCHANGED <<txs, clusters, clusterIdCounter, processed, status, call, bulk>>
    /\ UNCHANGED <<varsStore, varsUpdate>>

NextRisk == CalculateAddressRiskCall \/ CalculateRiskScoreCall

SpecRisk == InitRisk /\ [][NextRisk]_vars

RiskReturned ==
    pc = "returned" /\ call.op \in {"calculateAddressRisk", "calculateRiskScore"}

C11_UnknownScoresZero ==
    (/\ RiskReturned
     /\ call.op = "calculateAddressRisk"
     /\ call.address = "x") =>
        /\ ret.entityType = "Unknown"
        /\ ret.riskFactors = {}
        /\ RatEq(ret.riskScore, Zero)
        /\ ret.riskLevel = "Very Low"

\* the entity identification of the call under way threw
IdentificationFailed ==
    /\ call.op = "calculateAddressRisk"
    /\ identifyAddressEntity(entities, addressToEntityMap, call.address, TRUE).status
          = "error"

\* C12: when the entity identification throws, calculateAddressRisk still
\* returns: a risk assessment of the address with entity Unknown (entityId
\* null), a score within the range and the level of that score.
C12_LookupFailureDegrades ==
    (RiskReturned /\ IdentificationFailed) =>
        /\ ret.status = "ok"
        /\ ret.address = call.address
        /\ ret.entityId = NoId
        /\ ret.entityName = UnknownName
        /\ ret.entityType = "Unknown"
        /\ Leq(Zero, ret.riskScore) /\ Leq(ret.riskScore, Hundredths(95))
        /\ ret.riskLevel = riskLevelFromScore(ret.riskScore)
        /\ ret.riskLevel \in {"Very Low", "Low", "Medium", "High", "Very High"}

\* the address is no string, the store lookup threw, the assessment came back
C12_Witness ==
    /\ RiskReturned
    /\ IdentificationFailed
    /\ call.address = JNull
    /\ ret.status = "ok"
    /\ ret.entityType = "Unknown"

----------------------------------------------------------------------------
(* calculateBulkAddressRisk.  bulk holds chunkArray's loop index i and its   *)
(* result (batches), the index of the batch under way, the positions of the   *)
(* address list whose computation has started and has settled, and the        *)
(* results object (its entries, keyed by address) and errors array            *)

DefaultBatchSize == 10

\* options.batchSize || 10
BatchSizeOption(options) ==
    IF options.hasBatchSize /\ options.batchSize # 0
    THEN options.batchSize ELSE DefaultBatchSize

\* Array.prototype.slice's reading of an index of an array of length n
SliceIndex(k, n) ==
    IF k < 0 THEN (IF n + k < 0 THEN 0 ELSE n + k)
    ELSE (IF k > n THEN n ELSE k)

\* array.slice(from, to), indices counted from 0
Slice(array, from, to) ==
    LET lo == SliceIndex(from, Len(array))
        hi == SliceIndex(to, Len(array))
    IN  IF hi <= lo THEN <<>> ELSE SubSeq(array, lo + 1, hi)

\* the faulty variant: the next batch does not wait for the one under way
BatchSettledNoWait(started, settled) == TRUE

\* await Promise.all(batchPromises)
BatchSettled(started, settled) == started \subseteq settled

\* the position in the address list of member k of the batch under way
Position(k) == Len(Flatten(SubSeq(bulk.batches, 1, bulk.batch - 1))) + k

\* results[address] = risk
PutResult(results, risk) ==
    {r \in results : r.address # risk.address} \cup {risk}

MaxSpin == 3     \* iterations of a chunkArray loop that moves away from its end

\* one iteration of chunkArray's loop
ChunkStep ==
    LET size == BatchSizeOption(call)
    IN  /\ pc = "chunk"
        /\ bulk.i < Len(call.addresses)
        /\ bulk.i > -MaxSpin
        /\ bulk' = [bulk EXCEPT
                       !.batches = Append(@, Slice(call.addresses, bulk.i, bulk.i + size)),
                       !.i = @ + size]
        /\ UNCHANGED <<pc, txs, clusters, clusterIdCounter, processed, status, call, ret>>
        /\ UNCHANGED <<varsStore, varsUpdate>>

\* the loop is left; for (const batch of batches) begins
ChunkReturn ==
    /\ pc = "chunk"
    /\ bulk.i >= Len(call.addresses)
    /\ pc' = "batch"
    /\ bulk' = [bulk EXCEPT !.batch = 1]
    /\ UNCHANGED <<txs, clusters, clusterIdCounter, processed, status, call, ret>>
    /\ UNCHANGED <<varsStore, varsUpdate>>

\* batch.map(async (address) => ...): every member's computation starts
BatchStart ==
    /\ pc = "batch"
    /\ bulk.batch <= Len(bulk.batches)
    /\ bulk' = [bulk EXCEPT
                   !.started = @ \cup {Position(k) : k \in 1..Len(bulk.batches[bulk.batch])}]
    /\ pc' = "await"
    /\ UNCHANGED <<txs, clusters, clusterIdCounter, processed, status, call, ret>>
    /\ UNCHANGED <<varsStore, varsUpdate>>

\* one computation of the batch settles: its try block, or its catch block
AddressSettle ==
    \E p \in bulk.started \ bulk.settled :
        LET address == call.addresses[p]
            risk == calculateAddressRisk(entities, addressToEntityMap, address)
        IN  /\ pc = "await"
            /\ bulk' = [bulk EXCEPT
                           !.settled = @ \cup {p},
                           !.results = IF risk.status = "ok"
                                       THEN PutResult(@, risk) ELSE @,
                           !.errors = IF risk.status = "ok" THEN @
                                      ELSE Append(@, [address |-> address])]
            /\ UNCHANGED <<pc, txs, clusters, clusterIdCounter, processed, status,
                           call, ret>>
            /\ UNCHANGED <<varsStore, varsUpdate>>

\* Promise.all resolved: on to the next batch
BatchDone ==
    /\ pc = "await"
    /\ BatchSettled(bulk.started, bulk.settled)
    /\ bulk' = [bulk EXCEPT !.batch = @ + 1]
    /\ pc' = "batch"
    /\ UNCHANGED <<txs, clusters, clusterIdCounter, processed, status, call, ret>>
    /\ UNCHANGED <<varsStore, varsUpdate>>

BulkReturn ==
    /\ pc = "batch"
    /\ bulk.batch > Len(bulk.batches)
    /\ ret' = [results |-> bulk.results, errors |-> bulk.errors,
               totalProcessed |-> Len(call.addresses),
               successCount |-> Cardinality(bulk.results),
               errorCount |-> Len(bulk.errors)]
    /\ pc' = "returned"
    /\ UNCHANGED <<txs, clusters, clusterIdCounter, processed, status, call, bulk>>
    /\ UNCHANGED <<varsStore, varsUpdate>>

NextBulk ==
    ChunkStep \/ ChunkReturn \/ BatchStart \/ AddressSettle \/ BatchDone \/ BulkReturn

----------------------------------------------------------------------------
(* Specification SpecBulk: one call of calculateBulkAddressRisk on a list of  *)
(* distinct addresses, at most one of which is no string                      *)

MaxBulk == 11     \* addresses handed to the call

BulkPool ==
    <<"K1", "x", "K3", "y", "k1", "z", "K5", "k2", "K2", "k3", "K4", "k4",
      "K6", "k5", "k6">>

\* the first n addresses of the pool, the one at position bad (if any)
\* replaced by null
BulkList(n, bad) == [k \in 1..n |-> IF k = bad THEN JNull ELSE BulkPool[k]]

BulkLists == {BulkList(n, bad) : n \in 0..MaxBulk, bad \in {0, 1, 2}}

BulkOptions ==
    {<<FALSE, 0>>, <<TRUE, 0>>, <<TRUE, 2>>, <<TRUE, 3>>, <<TRUE, -1>>}

InitBulk ==
    /\ MockStore
    /\ \E l \in BulkLists, o \in BulkOptions :
          call = [op |-> "calculateBulkAddressRisk", addresses |-> l,
                  hasBatchSize |-> o[1], batchSize |-> o[2]]
    /\ ret = <<>>
    /\ bulk = NoBulk
    /\ pc = "chunk"
    /\ txs = <<>>
    /\ clusters = <<>>
    /\ ClusterUnused
    /\ UpdateUnused

SpecBulk == InitBulk /\ [][NextBulk]_vars

MaxBulkFair == 4     \* addresses handed to a call whose return is awaited

\* the calls of SpecBulk on the shorter lists, and two more batch sizes
InitBulkFair ==
    /\ MockStore
    /\ \E n \in 0..MaxBulkFair, bad \in {0, 1, 2},
          o \in BulkOptions \cup {<<TRUE, 1>>, <<TRUE, -2>>} :
          call = [op |-> "calculateBulkAddressRisk", addresses |-> BulkList(n, bad),
                  hasBatchSize |-> o[1], batchSize |-> o[2]]
    /\ ret = <<>>
    /\ bulk = NoBulk
    /\ pc = "chunk"
    /\ txs = <<>>
    /\ clusters = <<>>
    /\ ClusterUnused
    /\ UpdateUnused

\* every step of the call is taken in the end: the event loop runs each
\* continuation that is ready
SpecBulkFair == InitBulkFair /\ [][NextBulk]_vars /\ WF_vars(NextBulk)

----------------------------------------------------------------------------
(* Claims about calculateBulkAddressRisk                                     *)

BulkReturned == pc = "returned" /\ call.op = "calculateBulkAddressRisk"

\* the positions of the address list whose entity lookup throws
LookupThrows ==
    {p \in 1..Len(call.addresses) :
        identifyAddressEntity(entities, addressToEntityMap,
                              call.addresses[p], TRUE).status = "error"}

\* C13: a bulk call over n distinct addresses, the entity lookup of exactly
\* one of which throws, returns errors with exactly one entry, for that
\* address, results holding the other n - 1 addresses, and totalProcessed = n
C13_OneErrorPerFailedLookup ==
    (BulkReturned /\ Cardinality(LookupThrows) = 1) =>
        /\ Len(ret.errors) = 1
        /\ \A p \in LookupThrows : ret.errors[1].address = call.addresses[p]
        /\ {r.address : r \in ret.results}
              = {call.addresses[p] : p \in (1..Len(call.addresses)) \ LookupThrows}
        /\ ret.totalProcessed = Len(call.addresses)

\* the batch of the address at position q when batches hold size addresses
BatchOf(q, size) == ((q - 1) \div size) + 1

\* batches are the consecutive runs of size addresses, the last one shorter
\* or equal
ConsecutiveBatches(size) ==
    /\ Flatten(bulk.batches) = call.addresses
    /\ \A b \in 1..Len(bulk.batches) :
          /\ Len(bulk.batches[b]) >= 1
          /\ Len(bulk.batches[b]) <= size
          /\ b < Len(bulk.batches) => Len(bulk.batches[b]) = size

\* the address at position p has an entry in results or in errors
Processed(p) ==
    \/ \E r \in ret.results : r.address = call.addresses[p]
    \/ \E e \in 1..Len(ret.errors) : ret.errors[e].address = call.addresses[p]

\* C14: with a positive batch size (10 when none is given), the address list
\* is split into consecutive batches of that size, at most that many
\* computations are in flight at any moment, no address of a later batch
\* starts before every address of the earlier batches has settled, and every
\* address is processed, whether or not an address before it failed
C14_BatchesRunInTurn ==
    (call.op = "calculateBulkAddressRisk" /\ BatchSizeOption(call) > 0) =>
        /\ Cardinality(bulk.started \ bulk.settled) <= BatchSizeOption(call)
        /\ \A p \in bulk.started, q \in 1..Len(call.addresses) :
              BatchOf(q, BatchSizeOption(call)) < BatchOf(p, BatchSizeOption(call))
                  => q \in bulk.settled
        /\ pc # "chunk" => ConsecutiveBatches(BatchSizeOption(call))
        /\ pc = "returned" =>
              /\ bulk.settled = 1..Len(call.addresses)
              /\ \A p \in 1..Len(call.addresses) : Processed(p)

\* a call has returned that ran more than one batch, on a list one of whose
\* lookups throws
C14_Witness ==
    /\ BulkReturned
    /\ Len(bulk.batches) >= 2
    /\ LookupThrows # {}

\* C16: every call of calculateBulkAddressRisk returns, whatever the address
\* list and whatever integer the caller passes as batchSize
C16_BulkTerminates == <>(pc = "returned")

----------------------------------------------------------------------------
(* Claims about repeated identification                                      *)

SecondReturned == pc = "returned" /\ call.op = "identify" /\ call.earlier # <<>>

\* C15: a second call of identifyEntitiesFromTransactions on the same
\* transactions with updateEntities: false returns the clusters (ids and
\* members) and the attributions the first call returned, and fails exactly
\* when the first call failed
C15_RepeatableWithoutUpdates ==
    (SecondReturned /\ call.updateEntities = "false") =>
        /\ ret.status = call.earlier[1].status
        /\ ret.clusters = call.earlier[1].clusters
        /\ ret.attributions = call.earlier[1].attributions

\* both calls returned clusters, one of them attributed to an entity
C15_Witness ==
    /\ SecondReturned
    /\ call.updateEntities = "false"
    /\ ret.status = "ok"
    /\ \E k \in 1..Len(ret.attributions) : ret.attributions[k].entityId # NoId
    /\ \E k \in 1..Len(ret.attributions) : ret.attributions[k].entityId = NoId

----------------------------------------------------------------------------
(* Claims about the order of attributeAddress's steps                        *)

AddressReturned == pc = "returned" /\ call.op = "attributeAddress"

\* step 1 succeeds: the store knows the address
KnownEntity == findEntityForAddress(entities, addressToEntityMap, call.address).entity

\* the other members of the cluster the address falls into
RelatedToAddress ==
    IF Len(txs) = 0 THEN <<>>
    ELSE RelatedAddresses(combinedClustering(txs, RelatedInput(txs)).clusters,
                          call.address)

\* steps 3 to 5 succeed: the store knows a related address
ClusterStepSucceeds ==
    \E i \in 1..Len(RelatedToAddress) :
        findEntityForAddress(entities, addressToEntityMap,
                             RelatedToAddress[i]).entity.id # NoId

BehaviorOf == attributeByBehavior(entities, call.address, txs)

\* step 6 succeeds: a behavioural match with a score above 0.5
BehaviorStepSucceeds == BehaviorOf.idx # 0 /\ Less(Hundredths(50), BehaviorOf.score)

\* C17: attributeAddress returns the outcome of the first step that succeeds,
\* in the order direct match (with the entity's own confidence), cluster
\* analysis, behavioural match above 0.5, and otherwise the Unknown result with
\* entityId null, confidence 0 and method none; it returns one of the four
C17_FirstStepThatSucceeds ==
    AddressReturned =>
        /\ ret.status = "ok"
        /\ IF KnownEntity.id # NoId
           THEN /\ ret.attributionMethod = "direct_match"
                /\ ret.entityId = KnownEntity.id
                /\ ret.confidence = Hundredths(KnownEntity.confidenceScore)
           ELSE IF ClusterStepSucceeds
           THEN ret.attributionMethod = "cluster_analysis"
           ELSE IF BehaviorStepSucceeds
           THEN /\ ret.attributionMethod = "behavioral_analysis"
                /\ ret.entityId = entities[BehaviorOf.idx].id
                /\ ret.confidence = BehaviorOf.score
           ELSE /\ ret.attributionMethod = "none"
                /\ ret.entityId = NoId
                /\ ret.confidence = Zero

----------------------------------------------------------------------------
(* Claims about the consensus confidence                                     *)

\* 0.3 * coverage + 0.4 * base + 0.3 * consensusStrength for an entity with
\* count of the hits hits in a cluster of total addresses
WeightedConfidence(count, total, hits, base) ==
    RatAdd(RatAdd(RatMul(Tenths(3), Rat(count, total)),
                  RatMul(Tenths(4), Hundredths(base))),
           RatMul(Tenths(3), Rat(count, hits)))

\* the confidenceScore the store holds for the entity id
ScoreOf(id) == entities[EntityIndex(entities, id)].confidenceScore

ConsensusConfidence(r) ==
    WeightedConfidence(HitCount(HitsOf(r.addresses), r.entityId), Len(r.addresses),
                       Len(HitsOf(r.addresses)), ScoreOf(r.entityId))

\* exactly one of three addresses is known, and it is one of Binance's
OneBinanceOfThree(r) ==
    /\ Len(r.addresses) = 3
    /\ Len(HitsOf(r.addresses)) = 1
    /\ HitsOf(r.addresses)[1].entityId = 1
    /\ ScoreOf(1) = Binance

\* C18: the confidence of a consensus attribution is
\* min(0.99, 0.3 * coverage + 0.4 * base + 0.3 * consensusStrength), with
\* coverage the winner's hits over the cluster size, base the winner's
\* confidenceScore and consensusStrength the winner's hits over all hits; a
\* cluster of three addresses exactly one of which is Binance's (0.95) is
\* attributed to entity 1 with confidence 0.78
C18_ConsensusConfidence ==
    ReturnedClusters =>
        \A i \in 1..Len(ret.results) :
            ret.results[i].entityId # NoId =>
                /\ RatEq(ret.results[i].confidence,
                         IF Leq(ConsensusConfidence(ret.results[i]), Hundredths(99))
                         THEN ConsensusConfidence(ret.results[i])
                         ELSE Hundredths(99))
                /\ OneBinanceOfThree(ret.results[i]) =>
                      /\ ret.results[i].entityId = 1
                      /\ RatEq(ret.results[i].confidence, Hundredths(78))

C18_Witness ==
    /\ ReturnedClusters
    /\ \E i \in 1..Len(ret.results) : OneBinanceOfThree(ret.results[i])

----------------------------------------------------------------------------
(* Specification SpecMergeOnly: the stages of combinedClustering on lists of  *)
(* co-spends of two of four addresses and of transfers between two further    *)
(* addresses                                                                  *)

MaxMergeTx == 4     \* transactions per list

MergeTxUniverse ==
    {Utxo(<<AddrSeq4[p[1]], AddrSeq4[p[2]]>>, <<>>) : p \in Pairs(AddrSeq4)}
    \cup {Simple(x, y) : x, y \in {"e", "f"}}

InitMergeOnly ==
    /\ txs \in SeqUpTo(MergeTxUniverse, MaxMergeTx)
    /\ pc = "commonInput"
    /\ clusters = <<>>
    /\ clusterIdCounter = 1
    /\ processed = {}
    /\ status = "ok"
    /\ StoreUnused /\ UpdateUnused /\ CallUnused /\ BulkUnused

SpecMergeOnly == InitMergeOnly /\ [][NextCluster]_vars

\* the members of cluster c are all members of one cluster of cl
KeptTogether(c, cl) ==
    \E j \in 1..Len(cl) : Range(c.members) \subseteq Range(cl[j].members)

\* C20: within one run of combinedClustering, the addresses of every cluster
\* commonInputClustering produced are still together in one cluster after
\* changeAddressIdentification and in the final result: no such cluster is
\* dropped, split or overwritten by a cluster a later heuristic creates
C20_MergeOnly ==
    (pc \in {"behavioral", "done"} /\ status = "ok") =>
        \A i \in 1..Len(commonInputClustering(txs).clusters) :
            KeptTogether(commonInputClustering(txs).clusters[i], clusters)

----------------------------------------------------------------------------
(* Pattern and anomaly detection.  A transaction of a history is              *)
(* [hash, timestamp, value, from, to, gasPrice, gasUsed]: timestamp in        *)
(* minutes since the epoch, value in halves of a unit (a numeric value, 0 for *)
(* a missing one), gasPrice and gasUsed numbers (0 for a missing one).        *)
(* Thresholds on a mean or a standard deviation are compared exactly, in      *)
(* integers, after clearing the denominators and squaring                     *)

RECURSIVE SumSeq(_)
SumSeq(s) == IF s = <<>> THEN 0 ELSE Head(s) + SumSeq(Tail(s))

Squares(s) == [i \in 1..Len(s) |-> s[i] * s[i]]

Count(s, x) == Cardinality({i \in 1..Len(s) : s[i] = x})

\* n^2 times the variance of the numbers s, n = Len(s)
ScaledVariance(s) == Len(s) * SumSeq(Squares(s)) - SumSeq(s) * SumSeq(s)

\* date.getUTCHours(), date.getUTCDay(): the epoch began on a Thursday
UTCHours(tx) == (tx.timestamp \div 60) % 24
UTCDay(tx) == ((tx.timestamp \div 1440) + 4) % 7

\* the deviations count/total - 1/bins of a histogram, times bins * total
Deviations(histogram, total) ==
    [b \in 1..Len(histogram) |-> Len(histogram) * histogram[b] - total]

\* value > mean + k * stdDev over the bins, with k * k = kk[1] / kk[2]
AboveMean(histogram, total, b, kk) ==
    /\ Deviations(histogram, total)[b] > 0
    /\ kk[2] * Len(histogram) * Deviations(histogram, total)[b]
                              * Deviations(histogram, total)[b]
          > kk[1] * SumSeq(Squares(Deviations(histogram, total)))

\* the keys of the patterns object detectActivityTimingPatterns returns
detectActivityTimingPatterns(transactions) ==
    LET hourDistribution ==
            [h \in 1..24 |-> Cardinality({i \in 1..Len(transactions) :
                                            UTCHours(transactions[i]) = h - 1})]
        dayOfWeekDistribution ==
            [d \in 1..7 |-> Cardinality({i \in 1..Len(transactions) :
                                            UTCDay(transactions[i]) = d - 1})]
    IN  (IF \E h \in 1..24 : AboveMean(hourDistribution, Len(transactions), h, <<4, 1>>)
         THEN {"peakHours"} ELSE {})
        \cup
        (IF \E d \in 1..7 : AboveMean(dayOfWeekDistribution, Len(transactions), d, <<9, 4>>)
         THEN {"activeDays"} ELSE {})

Values(transactions) == [i \in 1..Len(transactions) |-> transactions[i].value]

\* value === Math.round(value), the value held in halves
IsRound(v) == v % 2 = 0

SeqMin(s) == CHOOSE x \in Range(s) : \A y \in Range(s) : x <= y
SeqMax(s) == CHOOSE x \in Range(s) : \A y \in Range(s) : y <= x

detectValueDistributionPatterns(transactions) ==
    LET values == Values(transactions)
    IN  (IF \E v \in Range(values) : IsRound(v) /\ Count(values, v) >= 3
         THEN {"roundValues"} ELSE {})
        \cup
        (IF \E v \in Range(values) : ~IsRound(v) /\ Count(values, v) >= 3
         THEN {"recurringValues"} ELSE {})
        \cup
        (IF Len(values) > 0 /\ SeqMax(values) > SeqMin(values) * 100
         THEN {"wideValueRange"} ELSE {})

\* tx.from === address ? tx.to : tx.from
Counterparties(address, transactions) ==
    [i \in 1..Len(transactions) |->
        IF transactions[i].from = address THEN transactions[i].to
        ELSE transactions[i].from]

detectCounterpartyPatterns(address, transactions) ==
    LET cps == Counterparties(address, transactions)
        oneTimeCount == Cardinality({c \in Range(cps) : Count(cps, c) = 1})
    IN  (IF \E c \in Range(cps) : Count(cps, c) >= 3
         THEN {"frequentCounterparties"} ELSE {})
        \cup
        (IF /\ oneTimeCount * 100 > 80 * Cardinality(Range(cps))
            /\ Cardinality(Range(cps)) > 10
         THEN {"manyOneTimeInteractions"} ELSE {})

RECURSIVE InsertByTimestamp(_, _)
\* tx placed after the members that are not later than it
InsertByTimestamp(sorted, tx) ==
    IF sorted = <<>> THEN <<tx>>
    ELSE IF tx.timestamp < Head(sorted).timestamp THEN <<tx>> \o sorted
    ELSE <<Head(sorted)>> \o InsertByTimestamp(Tail(sorted), tx)

RECURSIVE SortByTimestamp(_)
\* [...transactions].sort((a, b) => new Date(a.timestamp) - new Date(b.timestamp))
SortByTimestamp(transactions) ==
    IF transactions = <<>> THEN <<>>
    ELSE InsertByTimestamp(SortByTimestamp(SubSeq(transactions, 1, Len(transactions) - 1)),
                           transactions[Len(transactions)])

\* the intervals, in minutes, between consecutive members of a sorted history
Intervals(sorted) ==
    [i \in 1..(Len(sorted) - 1) |-> sorted[i + 1].timestamp - sorted[i].timestamp]

\* the number of intervals of lo to hi hours
Within(intervals, lo, hi) ==
    Cardinality({i \in 1..Len(intervals) :
                    intervals[i] >= lo * 60 /\ intervals[i] <= hi * 60})

detectPeriodicPatterns(transactions) ==
    LET intervals == Intervals(SortByTimestamp(transactions))
        daily == Within(intervals, 23, 25)
        weekly == Within(intervals, 163, 173)
        monthly == Within(intervals, 696, 744)
    IN  IF Len(transactions) = 0 \/ Len(intervals) < 5 THEN {}
        ELSE (IF daily >= 3 /\ 10 * daily >= 3 * Len(intervals)
              THEN {"dailyActivity"} ELSE {})
             \cup
             (IF weekly >= 3 /\ 10 * weekly >= 2 * Len(intervals)
              THEN {"weeklyActivity"} ELSE {})
             \cup
             (IF monthly >= 2 /\ 100 * monthly >= 15 * Len(intervals)
              THEN {"monthlyActivity"} ELSE {})

detectGasUsagePatterns(transactions) ==
    LET txsWithGas == SelectSeq(transactions, LAMBDA tx : tx.gasPrice # 0 /\ tx.gasUsed # 0)
        gasPrices == [i \in 1..Len(txsWithGas) |-> txsWithGas[i].gasPrice]
    IN  IF Len(txsWithGas) < 5 THEN {}
        ELSE (IF /\ 100 * ScaledVariance(gasPrices) < SumSeq(gasPrices) * SumSeq(gasPrices)
                 /\ Len(txsWithGas) >= 10
              THEN {"consistentGasPrice"} ELSE {})
             \cup
             (IF SumSeq(gasPrices) > 30 * Len(gasPrices)
              THEN {"highGasPricePreference"}
              ELSE IF 4 * SumSeq(gasPrices) < 60 * Len(gasPrices)
              THEN {"lowGasPricePreference"} ELSE {})

\* the severity of an anomaly: [kind |-> "q", x |-> the severity], or, for a
\* value outlier, [kind |-> "z", x |-> the square of its z-score], standing
\* for Math.min(0.9, 0.5 + (zScore - 3) / 10), the z-score being irrational
Severity(q) == [kind |-> "q", x |-> q]
ZSeverity(zz) == [kind |-> "z", x |-> zz]

\* ten times the severity q, less 2: what a z-score is compared with
ZBound(q) == RatSub(RatMul(Rat(10, 1), q), Rat(2, 1))

\* a.severity >= b.severity
SeverityGeq(a, b) ==
    CASE a.kind = "q" /\ b.kind = "q" -> Leq(b.x, a.x)
      [] a.kind = "z" /\ b.kind = "z" -> Leq(b.x, a.x) \/ Leq(Rat(49, 1), a.x)
      [] a.kind = "z" /\ b.kind = "q" ->
            /\ Leq(b.x, Tenths(9))
            /\ Leq(b.x, Tenths(2)) \/ Leq(RatMul(ZBound(b.x), ZBound(b.x)), a.x)
      [] a.kind = "q" /\ b.kind = "z" ->
            \/ Leq(Tenths(9), a.x)
            \/ Leq(Tenths(2), a.x) /\ Leq(b.x, RatMul(ZBound(a.x), ZBound(a.x)))

Anomaly(type, tx, severity) == [type |-> type, hash |-> tx.hash, severity |-> severity]

\* the outliers: zScore > 3 && value > mean
detectValueAnomalies(transactions) ==
    LET values == Values(transactions)
        n == Len(values)
        dev(i) == n * values[i] - SumSeq(values)
        outliers == SelectSeq([i \in 1..n |-> i],
                              LAMBDA i : /\ dev(i) > 0
                                         /\ dev(i) * dev(i) > 9 * ScaledVariance(values))
    IN  [k \in 1..Len(outliers) |->
            Anomaly("large_value", transactions[outliers[k]],
                    ZSeverity(Reduce(Rat(dev(outliers[k]) * dev(outliers[k]),
                                         ScaledVariance(values)))))]

\* Math.min(0.8, 0.4 + (mean / interval) / 20), mean = span / count
BurstSeverity(interval, span, count) ==
    IF interval = 0 THEN Severity(Tenths(8))
    ELSE Severity(RatMin(Tenths(8),
                         RatAdd(Tenths(4), Rat(span, 20 * count * interval))))

\* the bursts: interval < mean / 5 && interval < 1 (hour)
detectTimingAnomalies(transactions) ==
    LET sorted == SortByTimestamp(transactions)
        intervals == Intervals(sorted)
        span == SumSeq(intervals)
        bursts == SelectSeq([i \in 1..Len(intervals) |-> i],
                            LAMBDA i : /\ 5 * Len(intervals) * intervals[i] < span
                                       /\ intervals[i] < 60)
    IN  IF Len(transactions) = 0 \/ Len(intervals) < 5 THEN <<>>
        ELSE [k \in 1..Len(bursts) |->
                 Anomaly("activity_burst", sorted[bursts[k] + 1],
                         BurstSeverity(intervals[bursts[k]], span, Len(intervals)))]

MinBehaviorTx == 20

\* valueRatio > 5 || valueRatio < 0.2, valueRatio = secondMean / firstMean
ValueChanged(first, second) ==
    LET s1 == SumSeq(Values(first)) * Len(second)
        s2 == SumSeq(Values(second)) * Len(first)
    IN  IF s1 = 0 THEN s2 > 0
        ELSE s2 > 5 * s1 \/ 5 * s2 < s1

\* similarity < 0.1 with five counterparties or more in each period
CounterpartiesChanged(address, first, second) ==
    LET c1 == Range(Counterparties(address, first))
        c2 == Range(Counterparties(address, second))
    IN  /\ 10 * Cardinality(c1 \cap c2) < Cardinality(c1 \cup c2)
        /\ Cardinality(c1) >= 5
        /\ Cardinality(c2) >= 5

detectBehaviorChangeAnomalies(address, transactions) ==
    LET sorted == SortByTimestamp(transactions)
        midpoint == Len(sorted) \div 2
        first == SubSeq(sorted, 1, midpoint)
        second == SubSeq(sorted, midpoint + 1, Len(sorted))
    IN  IF Len(transactions) < MinBehaviorTx THEN <<>>
        ELSE (IF ValueChanged(first, second)
              THEN <<Anomaly("value_behavior_change", sorted[midpoint + 1],
                             Severity(Tenths(6)))>>
              ELSE <<>>)
             \o
             (IF CounterpartiesChanged(address, first, second)
              THEN <<Anomaly("counterparty_behavior_change", sorted[midpoint + 1],
                             Severity(Tenths(7)))>>
              ELSE <<>>)

\* the placeholder
detectCounterpartyAnomalies(address, transactions) == <<>>

RECURSIVE InsertBySeverity(_, _)
\* a placed after the members that are not less severe than it
InsertBySeverity(sorted, a) ==
    IF sorted = <<>> THEN <<a>>
    ELSE IF SeverityGeq(Head(sorted).severity, a.severity)
    THEN <<Head(sorted)>> \o InsertBySeverity(Tail(sorted), a)
    ELSE <<a>> \o sorted

RECURSIVE SortBySeverity(_)
\* anomalies.sort((a, b) => b.severity - a.severity)
SortBySeverity(anomalies) ==
    IF anomalies = <<>> THEN <<>>
    ELSE InsertBySeverity(SortBySeverity(SubSeq(anomalies, 1, Len(anomalies) - 1)),
                          anomalies[Len(anomalies)])

MinPatternTx == 3
MinAnomalyTx == 10

\* the faulty variant: the history is never found too short
InsufficientNever(hasTransactions, transactions, least) == FALSE

\* !transactions || transactions.length < least
Insufficient(hasTransactions, transactions, least) ==
    ~hasTransactions \/ Len(transactions) < least

\* the patterns object: its categories in insertion order, each with the keys
\* of the patterns found
PatternCategories(address, transactions) ==
    << [category |-> "activityTiming",
        keys |-> detectActivityTimingPatterns(transactions)],
       [category |-> "valueDistribution",
        keys |-> detectValueDistributionPatterns(transactions)],
       [category |-> "counterparties",
        keys |-> detectCounterpartyPatterns(address, transactions)],
       [category |-> "periodicActivity",
        keys |-> detectPeriodicPatterns(transactions)],
       [category |-> "gasUsage",
        keys |-> detectGasUsagePatterns(transactions)] >>

RECURSIVE CountPatterns(_, _, _)
\* the loop adding Object.keys(patterns[category]).length for each category kept
CountPatterns(significant, k, patternCount) ==
    IF k > Len(significant) THEN patternCount
    ELSE CountPatterns(significant, k + 1,
                       patternCount + Cardinality(significant[k].keys))

PatternResult(address, significant) ==
    [address |-> address, count |-> CountPatterns(significant, 1, 0),
     found |-> significant, message |-> FALSE]

detectAddressPatterns(address, hasTransactions, transactions) ==
    IF Insufficient(hasTransactions, transactions, MinPatternTx)
    THEN [address |-> address, count |-> 0, found |-> <<>>, message |-> TRUE]
    ELSE PatternResult(address,
                       SelectSeq(PatternCategories(address, transactions),
                                 LAMBDA p : p.keys # {}))

AnomalyResult(address, anomalies) ==
    [address |-> address, count |-> Len(anomalies), found |-> anomalies,
     message |-> FALSE]

detectAnomalies(address, hasTransactions, transactions) ==
    IF Insufficient(hasTransactions, transactions, MinAnomalyTx)
    THEN [address |-> address, count |-> 0, found |-> <<>>, message |-> TRUE]
    ELSE AnomalyResult(address,
                       SortBySeverity(detectValueAnomalies(transactions)
                                      \o detectTimingAnomalies(transactions)
                                      \o detectBehaviorChangeAnomalies(address, transactions)
                                      \o detectCounterpartyAnomalies(address, transactions)))

----------------------------------------------------------------------------
(* Specification SpecPattern: one call of detectAddressPatterns or of         *)
(* detectAnomalies on the history of address "x".  A history is a regular     *)
(* one (a transaction every step minutes, of one value, with one counterparty *)
(* or with a new one each time), its last transaction possibly an outlier in  *)
(* value, or following its predecessor by ten minutes, or both                *)

MaxHistory == 12     \* transactions of a history

HistoryTx(k, n, step, value, sameParty, gasPrice, last) ==
    [hash |-> k,
     timestamp |-> IF k = n /\ n > 1 /\ last \in {"burst", "both"}
                   THEN (k - 2) * step + 10 ELSE (k - 1) * step,
     value |-> IF k = n /\ last \in {"large", "both"} THEN 101 * value ELSE value,
     from |-> "x",
     to |-> <<"party", IF sameParty THEN 0 ELSE k>>,
     gasPrice |-> gasPrice,
     gasUsed |-> IF gasPrice = 0 THEN 0 ELSE 21000]

History(n, step, value, sameParty, gasPrice, last) ==
    [k \in 1..n |-> HistoryTx(k, n, step, value, sameParty, gasPrice, last)]

Histories ==
    {History(n, step, value, sameParty, gasPrice, last) :
        n \in 0..MaxHistory, step \in {90, 1440, 10080, 43200}, value \in {2, 3},
        sameParty \in BOOLEAN, gasPrice \in {0, 10, 40},
        last \in {"plain", "large", "burst", "both"}}

InitPattern ==
    /\ txs \in Histories
    /\ \E op \in {"detectAddressPatterns", "detectAnomalies"},
          has \in BOOLEAN :
          /\ call = [op |-> op, address |-> "x", hasTransactions |-> has]
          /\ ~has => txs = <<>>
    /\ ret = <<>>
    /\ pc = "call"
    /\ clusters = <<>>
    /\ StoreUnused /\ ClusterUnused /\ UpdateUnused /\ BulkUnused

DetectAddressPatternsCall ==
    /\ pc = "call"
    /\ call.op = "detectAddressPatterns"
    /\ ret' = detectAddressPatterns(call.address, call.hasTransactions, txs)
    /\ pc' = "returned"
    /\ UNCHANGED <<txs, clusters, clusterIdCounter, processed, status, call, bulk>>
    /\ UNCHANGED <<varsStore, varsUpdate>>

DetectAnomaliesCall ==
    /\ pc = "call"
    /\ call.op = "detectAnomalies"
    /\ ret' = detectAnomalies(call.address, call.hasTransactions, txs)
    /\ pc' = "returned"
    /\ UNCHANGED <<txs, clusters, clusterIdCounter, processed, status, call, bulk>>
    /\ UNCHANGED <<varsStore, varsUpdate>>

NextPattern == DetectAddressPatternsCall \/ DetectAnomaliesCall

SpecPattern == InitPattern /\ [][NextPattern]_vars

PatternsReturned == pc = "returned" /\ call.op = "detectAddressPatterns"
AnomaliesReturned == pc = "returned" /\ call.op = "detectAnomalies"

\* the patterns a result holds: a category and a key of it
PatternsOf(r) ==
    UNION {{<<r.found[i].category, k>> : k \in r.found[i].keys} : i \in 1..Len(r.found)}

\* C19: detectAddressPatterns on fewer than 3 transactions, or none, returns
\* patternCount 0 and no patterns, detectAnomalies on fewer than 10 returns
\* anomalyCount 0 and no anomalies; on longer histories the count returned is
\* the number of patterns, of anomalies, returned
C19_CountsMatch ==
    /\ PatternsReturned =>
          /\ (~call.hasTransactions \/ Len(txs) < 3) =>
                ret.count = 0 /\ ret.found = <<>>
          /\ ret.count = Cardinality(PatternsOf(ret))
          /\ \A i \in 1..Len(ret.found) : ret.found[i].keys # {}
    /\ AnomaliesReturned =>
          /\ (~call.hasTransactions \/ Len(txs) < 10) =>
                ret.count = 0 /\ ret.found = <<>>
          /\ ret.count = Len(ret.found)

\* a history long enough for both, with patterns and anomalies found
C19_Witness ==
    \/ PatternsReturned /\ Len(txs) >= 3 /\ Len(ret.found) >= 2 /\ ret.count > Len(ret.found)
    \/ AnomaliesReturned /\ Len(txs) >= 10 /\ ret.count >= 1

----------------------------------------------------------------------------
(* Claims on the residual stage of combinedClustering *)

\* the addresses the first two heuristics left in no cluster
Residual == UnclusteredAddresses(clusters, AddressList(txs))

\* the last stage of combinedClustering runs over readable transactions
ResidualStage == pc = "behavioral" /\ pc' = "done" /\ WellFormed(txs)

\* C21: behavioural clustering is applied to the residual addresses only,
\* leaves every cluster of the first two heuristics as it was, and returns
\* each residual address as a singleton cluster of its own (no two addresses
\* are ever similar), for 0, 1, 2 or more residual addresses
C21_ResidualSingletons ==
    [][ResidualStage =>
          /\ status' = "ok"
          /\ \A c \in Range(clusters) : c \in Range(clusters')
          /\ \A c \in Range(clusters') \ Range(clusters) :
                Len(c.members) = 1 /\ c.members[1] \in Range(Residual)
          /\ \A a \in Range(Residual) :
                \E c \in Range(clusters') \ Range(clusters) : c.members = <<a>>]_vars

\* what holds of the stage when at most one address is residual
UpToOneResidual ==
    [][ResidualStage /\ Cardinality(Range(Residual)) <= 1 =>
          /\ status' = "ok"
          /\ \A c \in Range(clusters) : c \in Range(clusters')
          /\ \A a \in Range(Residual) :
                \E c \in Range(clusters') \ Range(clusters) : c.members = <<a>>]_vars

----------------------------------------------------------------------------
(* Specification SpecChange: changeAddressIdentification over the clusters of *)
(* commonInputClustering, one transaction per step; the transactions carry    *)
(* their hash, and a list may hold the same transaction more than once        *)

MaxChangeTx == 3     \* transactions per list

WithHash(tx, h) == [hash |-> h] @@ tx

\* transfers, one input paying two outputs (twice the same one included),
\* a co-spend with one output
ChangeTxUniverse ==
    {Simple(x, y) : x, y \in Addr}
    \cup {Utxo(<<x>>, <<AddrSeq[p[1]], AddrSeq[p[2]]>>) : x \in Addr, p \in Pairs(AddrSeq)}
    \cup {Utxo(<<"a", "b">>, <<z>>) : z \in Addr}
    \cup {Utxo(<<"a">>, <<"b", "b">>)}

\* the hash of a transaction is the position of its first occurrence, and
\* two list members with one hash are the same transaction
HashChoices(q) ==
    {hs \in [1..Len(q) -> 1..MaxChangeTx] :
        \A i \in 1..Len(q) : hs[i] <= i /\ hs[hs[i]] = hs[i] /\ q[hs[i]] = q[i]}

\* the lists of at most n transactions
HashedLists(n) ==
    UNION {{[i \in 1..Len(q) |-> WithHash(q[i], hs[i])] : hs \in HashChoices(q)} :
            q \in SeqUpTo(ChangeTxUniverse, n)}

InitChange ==
    /\ txs \in HashedLists(MaxChangeTx)
    /\ pc = "change"
    /\ clusters = JsonClone(commonInputClustering(txs).clusters)
    /\ clusterIdCounter = 1
    /\ processed = {}
    /\ status = "ok"
    /\ StoreUnused /\ UpdateUnused /\ CallUnused /\ BulkUnused

\* the transaction transactions.forEach has come to
ChangeAt == Cardinality(processed) + 1

ChangePending == pc = "change" /\ ChangeAt <= Len(txs)

\* the body of the forEach callback for that transaction
ChangeProcess ==
    /\ clusters' = ChangeAddressStep(clusters, ChangeAt, txs)
    /\ processed' = processed \cup {ChangeAt}
    /\ UNCHANGED <<txs, pc, clusterIdCounter, status, varsStore, varsUpdate, varsCall, bulk>>

\* potentialChangeAddresses.length !== 1
ChangeSkip ==
    /\ ChangePending
    /\ Len(PotentialChangeAddresses(ChangeAt, txs)) # 1
    /\ ChangeProcess

\* ownerClusterId found: push
ChangeJoin ==
    /\ ChangePending
    /\ Len(PotentialChangeAddresses(ChangeAt, txs)) = 1
    /\ Len(OwnerCandidates(clusters, getInputAddresses(txs[ChangeAt]))) > 0
    /\ ChangeProcess

\* no owner: a new cluster id is assigned
ChangeCreate ==
    /\ ChangePending
    /\ Len(PotentialChangeAddresses(ChangeAt, txs)) = 1
    /\ Len(OwnerCandidates(clusters, getInputAddresses(txs[ChangeAt]))) = 0
    /\ ChangeProcess

ChangeReturn ==
    /\ pc = "change"
    /\ ChangeAt > Len(txs)
    /\ pc' = "changeDone"
    /\ UNCHANGED <<txs, clusters, clusterIdCounter, processed, status>>
    /\ UNCHANGED <<varsStore, varsUpdate, varsCall, bulk>>

NextChange == ChangeSkip \/ ChangeJoin \/ ChangeCreate \/ ChangeReturn

SpecChange == InitChange /\ [][NextChange]_vars

\* the outputs of transaction i that are neither input nor output of a
\* transaction standing before it in the list
NovelOutputs(i) ==
    SelectSeq(getOutputAddresses(txs[i]),
              LAMBDA a : \A k \in 1..(i - 1) :
                  /\ ~Includes(getInputAddresses(txs[k]), a)
                  /\ ~Includes(getOutputAddresses(txs[k]), a))

\* the step the forEach takes for transaction i
ChangeStepOf(i) == pc = "change" /\ ChangeAt = i /\ processed' = processed \cup {i}

\* transaction i does what the rule says
RuleFollowed(i) ==
    LET ins   == getInputAddresses(txs[i])
        novel == NovelOutputs(i)
        owned == {c \in Range(clusters) : \E k \in 1..Len(ins) : Includes(c.members, ins[k])}
    IN  IF Len(novel) # 1 THEN clusters' = clusters
        ELSE IF owned # {}
        THEN \E c \in owned : clusters' = Put(clusters, c.id, Append(c.members, novel[1]))
        ELSE \E c \in Range(clusters') \ Range(clusters) :
                c.members = Append(ins, novel[1])

\* C22: changeAddressIdentification acts on a transaction only when exactly
\* one of its outputs appears in no transaction before it in the list: the
\* output joins a cluster holding one of the inputs or, if none does, a new
\* cluster of the inputs and that output is created; with 0 or 2 and more
\* novel outputs the clusters stay as they are
C22_ExactlyOneNovelOutput ==
    [][\A i \in 1..MaxChangeTx : ChangeStepOf(i) => RuleFollowed(i)]_vars

\* every transaction of the list has a hash of its own
DistinctHashes == \A i \in 1..Len(txs) : HashOf(txs, i) = i

\* the rule as followed over lists of distinct transactions
RuleOverDistinctHashes ==
    [][\A i \in 1..MaxChangeTx : ChangeStepOf(i) /\ DistinctHashes => RuleFollowed(i)]_vars

----------------------------------------------------------------------------
(* Specification SpecNormalize: getInputAddresses / getOutputAddresses on one *)
(* record                                                                     *)

MaxEntries == 2     \* members of an inputs / outputs list

\* a list member: an address, an object without address, null
Entries == {"a", "b", Undef, NullEntry}

\* records with and without lists (an empty list included), with and without
\* from / to
RecordUniverse ==
    {[hasInputs |-> hi, inputs |-> ins, hasOutputs |-> ho, outputs |-> outs,
      from |-> f, to |-> t] :
        hi \in BOOLEAN, ins \in SeqUpTo(Entries, MaxEntries),
        ho \in BOOLEAN, outs \in SeqUpTo(Entries, MaxEntries),
        f \in {"a", Undef}, t \in {"b", Undef}}

InitNormalize ==
    /\ \E tx \in RecordUniverse :
          /\ ~tx.hasInputs => tx.inputs = <<>>
          /\ ~tx.hasOutputs => tx.outputs = <<>>
          /\ txs = <<tx>>
    /\ \E op \in {"getInputAddresses", "getOutputAddresses"} :
          call = [op |-> op]
    /\ ret = <<>>
    /\ pc = "call"
    /\ clusters = <<>>
    /\ StoreUnused /\ ClusterUnused /\ UpdateUnused /\ BulkUnused

Normalized(addresses, throws) ==
    /\ ret' = IF throws THEN <<>> ELSE addresses
    /\ pc' = IF throws THEN "thrown" ELSE "returned"
    /\ UNCHANGED <<txs, clusters, clusterIdCounter, processed, status, call, bulk>>
    /\ UNCHANGED <<varsStore, varsUpdate>>

GetInputAddressesCall ==
    /\ pc = "call"
    /\ call.op = "getInputAddresses"
    /\ Normalized(getInputAddresses(txs[1]), getInputThrows(txs[1]))

GetOutputAddressesCall ==
    /\ pc = "call"
    /\ call.op = "getOutputAddresses"
    /\ Normalized(getOutputAddresses(txs[1]), getOutputThrows(txs[1]))

NextNormalize == GetInputAddressesCall \/ GetOutputAddressesCall

SpecNormalize == InitNormalize /\ [][NextNormalize]_vars

\* what the rule gives for a list (or none) and the single address (or none)
Fallback(hasList, list, single) ==
    IF hasList THEN pc = "returned" /\ ret = list
    ELSE IF single # Undef THEN pc = "returned" /\ ret = <<single>>
    ELSE pc = "returned" /\ ret = <<>>

\* C23: getInputAddresses / getOutputAddresses return the address fields of
\* the inputs / outputs list when there is one, otherwise the single from / to
\* address, and for a record with neither an empty collection, without
\* throwing (a list with a null member is left aside)
C23_NormalizerFallback ==
    LET tx == txs[1]
    IN  /\ (pc # "call" /\ call.op = "getInputAddresses" /\ ~getInputThrows(tx)) =>
              Fallback(tx.hasInputs, tx.inputs, tx.from)
        /\ (pc # "call" /\ call.op = "getOutputAddresses" /\ ~getOutputThrows(tx)) =>
              Fallback(tx.hasOutputs, tx.outputs, tx.to)

\* the rule for records that have a list or a from / to
FallbackWhenPresent ==
    LET tx == txs[1]
    IN  /\ (pc # "call" /\ call.op = "getInputAddresses" /\ ~getInputThrows(tx)
            /\ (tx.hasInputs \/ tx.from # Undef)) =>
              Fallback(tx.hasInputs, tx.inputs, tx.from)
        /\ (pc # "call" /\ call.op = "getOutputAddresses" /\ ~getOutputThrows(tx)
            /\ (tx.hasOutputs \/ tx.to # Undef)) =>
              Fallback(tx.hasOutputs, tx.outputs, tx.to)

----------------------------------------------------------------------------
(* Specification SpecShift: detectAnomalies over histories whose transaction  *)
(* values change at mid-history                                               *)

MinShiftHistory == 8     \* transactions of the shortest history
MaxShiftHistory == 22    \* transactions of the longest history

\* transaction k of n: the later half (by time) has its values multiplied, or
\* the earlier half has; the list is oldest first or newest first
ShiftTx(k, n, step, value, factor, later) ==
    [hash |-> k,
     timestamp |-> (k - 1) * step,
     value |-> IF (k > n \div 2) = later THEN factor * value ELSE value,
     from |-> "x",
     to |-> <<"party", 0>>,
     gasPrice |-> 40,
     gasUsed |-> 21000]

ShiftHistory(n, step, value, factor, later, newestFirst) ==
    [k \in 1..n |->
        ShiftTx(IF newestFirst THEN n + 1 - k ELSE k, n, step, value, factor, later)]

ShiftHistories ==
    {ShiftHistory(n, step, value, factor, later, newestFirst) :
        n \in MinShiftHistory..MaxShiftHistory, step \in {90, 1440}, value \in {2, 3},
        factor \in {1, 5, 6}, later \in BOOLEAN, newestFirst \in BOOLEAN}

InitShift ==
    /\ txs \in ShiftHistories
    /\ call = [op |-> "detectAnomalies", address |-> "x", hasTransactions |-> TRUE]
    /\ ret = <<>>
    /\ pc = "call"
    /\ clusters = <<>>
    /\ StoreUnused /\ ClusterUnused /\ UpdateUnused /\ BulkUnused

SpecShift == InitShift /\ [][DetectAnomaliesCall]_vars

\* the mean value of the later half of the history, by timestamp, is more
\* than 5 times or less than 0.2 times the mean of the earlier half
HalvesDiffer ==
    LET sorted == SortByTimestamp(txs)
        mid    == Len(sorted) \div 2
        sum1   == SumSeq(Values(SubSeq(sorted, 1, mid)))
        sum2   == SumSeq(Values(SubSeq(sorted, mid + 1, Len(sorted))))
        n1     == mid
        n2     == Len(sorted) - mid
    IN  \/ sum2 * n1 > 5 * sum1 * n2
        \/ 5 * sum2 * n1 < sum1 * n2

ReportsValueChange ==
    \E i \in 1..Len(ret.found) : ret.found[i].type = "value_behavior_change"

\* C24: detectAnomalies on a history of at least 10 transactions whose later
\* half has a mean value more than 5 times, or less than 0.2 times, that of
\* the earlier half reports a value_behavior_change anomaly
C24_ValueChangeReported ==
    (AnomaliesReturned /\ Len(txs) >= 10 /\ HalvesDiffer) => ReportsValueChange

\* the same over the histories detectBehaviorChangeAnomalies looks at, and
\* no such anomaly without the change
ValueChangeFromTwenty ==
    (AnomaliesReturned /\ Len(txs) >= MinBehaviorTx) =>
        (HalvesDiffer <=> ReportsValueChange)

----------------------------------------------------------------------------
(* Specification SpecReassign: one call of updateEntitiesWithAttributions    *)
(* whose clusters hold addresses of several entities of the store            *)

MaxMixed == 2     \* attributions handed to the call

MixedUniverse ==
    {Attribution(e, c, addrs) :
        e \in {NoId, 1, 2},
        c \in {Zero, Hundredths(90)},
        addrs \in {<<"K1">>, <<"K1", "K3">>, <<"K3", "x">>, <<"x", "y", "z">>}}

InitReassign ==
    /\ MockStore
    /\ \E list \in SeqUpTo(MixedUniverse, MaxMixed) :
          attributionResults = [r \in Runs |-> IF r = 1 THEN Keyed(list) ELSE <<>>]
    /\ \E t \in {Zero, DefaultThreshold} : confidenceThreshold = [r \in Runs |-> t]
    /\ run = [r \in Runs |-> IF r = 1 THEN StartRun ELSE IdleRun]
    /\ txs = <<>> /\ pc = "update" /\ clusters = <<>>
    /\ ClusterUnused /\ CallUnused /\ BulkUnused

SpecReassign == InitReassign /\ [][NextUpdate]_vars

(* Claims on the store across updateEntitiesWithAttributions *)

\* the entity of the mock store that address k of entity i belongs to before
\* the call is still the one findEntityForAddress returns for it, and no other
\* entity lists the address
StillOwnedBy(i, k) ==
    LET a == MockEntities(Binance, Coinbase, Uniswap)[i].addresses[k]
    IN  /\ findEntityForAddress(entities, addressToEntityMap, a).entity.id = i
        /\ \A j \in 1..Len(entities) :
              entities[j].id # i => ~Includes(entities[j].addresses, a)

\* C25: updateEntitiesWithAttributions never reassigns an address: an address
\* findEntityForAddress resolved to entity X before the call resolves to X
\* after it and is in the address list of no other entity
C25_NeverReassigns ==
    \A i \in 1..3 : \A k \in 1..2 : StillOwnedBy(i, k)

----------------------------------------------------------------------------
(* Claims on the options of identifyEntitiesFromTransactions                 *)

StoreAsLoaded ==
    /\ entities = MockEntities(Binance, Coinbase, Uniswap)
    /\ addressToEntityMap = BuildAddressMap(MockEntities(Binance, Coinbase, Uniswap))
    /\ nextUuid = UuidBase + 1

\* C26: identifyEntitiesFromTransactions with updateEntities: false makes no
\* createEntity and no updateEntity call: the entities and the address index
\* of the store are after the call what they were before it, and the updates
\* field returned is null
C26_NoStoreCallWhenDisabled ==
    (call.op = "identify" /\ call.updateEntities = "false") =>
        /\ StoreAsLoaded
        /\ pc # "update"
        /\ Returned => ~ret.hasUpdates

\* a call that returned without updates although one of its clusters would
\* have been written or created under the threshold given
C26_Witness ==
    /\ Returned
    /\ call.updateEntities = "false"
    /\ \E k \in 1..Len(ret.attributions) :
          Classify(ret.attributions[k], ThresholdOption(call)) \in {"entity", "create"}

\* the threshold step 4 ran with
AppliedThreshold == confidenceThreshold[1]

UpdateStepTaken == call.op = "identify" /\ pc \in {"return", "returned"} /\ run[1].pc = "done"

\* C30: identifyEntitiesFromTransactions applies 0.8 only when the caller
\* gives no confidenceThreshold; a threshold the caller passes, 0 included, is
\* the one updateEntitiesWithAttributions is called with
C30_CallerThresholdApplied ==
    UpdateStepTaken =>
        AppliedThreshold = IF call.hasThreshold THEN call.threshold ELSE DefaultThreshold

\* the same for the thresholds other than 0
NonZeroThresholdApplied ==
    (UpdateStepTaken /\ ~(call.hasThreshold /\ RatEq(call.threshold, Zero))) =>
        AppliedThreshold = IF call.hasThreshold THEN call.threshold ELSE DefaultThreshold

----------------------------------------------------------------------------
(* Claims on the matched addresses of an attribution                         *)

\* every matched address of the attribution resolves to the entity named
MatchedBelongTo(attribution) ==
    \A k \in 1..Len(attribution.matchedAddresses) :
        findEntityForAddress(entities, addressToEntityMap,
                             attribution.matchedAddresses[k]).entity.id
            = attribution.entityId

\* C27: the matchedAddresses of an attribution returned by attributeClusters
\* or attributeAddress hold only addresses the store resolves to the entity
\* the attribution names, also for a cluster with addresses of other entities
C27_MatchedAddressesOfEntity ==
    /\ ReturnedClusters => \A i \in 1..Len(ret.results) : MatchedBelongTo(ret.results[i])
    /\ ReturnedAddress => MatchedBelongTo(ret)

\* the same for the clusters all of whose known addresses are of one entity
MatchedOfSingleEntity ==
    ReturnedClusters =>
        \A i \in 1..Len(ret.results) :
            (\A h1, h2 \in Range(HitsOf(ret.results[i].addresses)) :
                h1.entityId = h2.entityId) => MatchedBelongTo(ret.results[i])

----------------------------------------------------------------------------
(* Specification SpecBulkRepeat: calculateBulkAddressRisk on lists that may   *)
(* hold an address more than once                                             *)

MaxRepeat == 3     \* addresses handed to the call

InitBulkRepeat ==
    /\ MockStore
    /\ \E l \in SeqUpTo({"K1", "k1", "x", JNull}, MaxRepeat),
          o \in {<<FALSE, 0>>, <<TRUE, 2>>} :
          call = [op |-> "calculateBulkAddressRisk", addresses |-> l,
                  hasBatchSize |-> o[1], batchSize |-> o[2]]
    /\ ret = <<>>
    /\ bulk = NoBulk
    /\ pc = "chunk"
    /\ txs = <<>>
    /\ clusters = <<>>
    /\ ClusterUnused
    /\ UpdateUnused

SpecBulkRepeat == InitBulkRepeat /\ [][NextBulk]_vars

\* C28: for every address list handed to calculateBulkAddressRisk, lists that
\* hold an address more than once included, successCount + errorCount =
\* totalProcessed = the number of addresses handed in
C28_CountsAddUp ==
    BulkReturned =>
        /\ ret.totalProcessed = Len(call.addresses)
        /\ ret.successCount + ret.errorCount = ret.totalProcessed

\* the addresses of the list are all different
NoRepeat ==
    \A p, q \in 1..Len(call.addresses) :
        call.addresses[p] = call.addresses[q] => p = q

\* the same over the lists that hold no address twice
CountsAddUpWithoutRepeat ==
    (BulkReturned /\ NoRepeat) =>
        /\ ret.totalProcessed = Len(call.addresses)
        /\ ret.successCount + ret.errorCount = ret.totalProcessed

----------------------------------------------------------------------------
(* Claims on the members of a cluster                                        *)

\* no member of the list occurs twice
ListedOnce(members) ==
    \A p, q \in 1..Len(members) : members[p] = members[q] => p = q

ClustersReturned == pc = "done" /\ status = "ok" /\ WellFormed(txs)

\* C29: every cluster combinedClustering returns lists each address at most
\* once, for all transaction lists: self-transfers and transactions whose
\* novel output is one of their inputs or a member of the owner cluster too
C29_AddressListedOnce ==
    ClustersReturned => \A c \in Range(clusters) : ListedOnce(c.members)

====
